---- MODULE Spec2Model ----
(***************************************************************************)
(* Session authentication, role authorization, account administration and *)
(* the donation and survey routes of the Ella Rises administrative        *)
(* application (Express + knex + bcrypt).                                 *)
(*                                                                         *)
(* Strings that the code inspects (passwords) are sequences of tokens;    *)
(* "$2" is the one-token bcrypt marker.  A body field that is absent is   *)
(* the empty value ("" / <<>>), which JavaScript treats as falsy.         *)
(* A request is a record in a slot of reqs; every await of a handler that *)
(* reaches the database or the session is a separate step.                *)
(***************************************************************************)
EXTENDS Integers, Sequences, FiniteSets, TLC

VARIABLES users, nextId, session, reqs, db, env, sessionOpts

vars == <<users, nextId, session, reqs, db, env, sessionOpts>>

----------------------------------------------------------------------------
(* Bounds *)

MaxReqs == 1        \* request slots of the full specification
MaxRaceReqs == 2    \* request slots of the registration specification
MaxAdminReqs == 1   \* request slots of the administration specification
MaxSessions == 1    \* session identifiers
MaxUsers == 3       \* largest account id the table may hold
MaxSalt == 1        \* distinct salts bcrypt may draw
MaxSnapReqs == 1    \* request slots of the session-snapshot specification
MaxRecordReqs == 1  \* request slots of the donations specification
MaxRecords == 2     \* largest serial key of participants and donations
MaxSurveyReqs == 1  \* request slots of the surveys specification
MaxSurveys == 1     \* largest serial key of surveys
MaxPasswordReqs == 1 \* request slots of the password-writers specification
MaxUpgradeReqs == 2 \* request slots of the password-upgrade specification
MaxEventReqs == 1   \* request slots of the events specification
MaxEvents == 2      \* largest eventid a request may be given
MaxListReqs == 1    \* request slots of the list-route specification
MaxEditReqs == 1    \* request slots of the account-editing specification
MaxSessionReqs == 3 \* requests of the session-lifetime specification

----------------------------------------------------------------------------
(* Values *)

SaltNames == <<"s1", "s2", "s3">>
Salts == {SaltNames[i] : i \in 1..MaxSalt}

SessionIds == DOMAIN session

RoleCodes == {"M", "U"}            \* manager = "M", user = "U"
BodyLevels == {"M", "U", "X"}      \* what a form may post as level

Usernames == {"alice", "bob", "carol"}      \* carol has no account at first
LoginUsernames == Usernames

Plain == {<<"p">>, <<"q">>}

\* bodies of POST /create-account: a field absent, a taken name, a free
\* name, and a level field that the form does not have
CreateBodies ==
    {[username |-> "", password |-> <<"p">>, level |-> ""],
     [username |-> "carol", password |-> <<>>, level |-> ""],
     [username |-> "alice", password |-> <<"p">>, level |-> ""],
     [username |-> "carol", password |-> <<"p">>, level |-> ""],
     [username |-> "carol", password |-> <<"q">>, level |-> "M"]}

\* bodies of POST /addUser
AddUserBodies ==
    {[username |-> "", password |-> <<"p">>, confirm |-> <<"p">>, level |-> "U"],
     [username |-> "carol", password |-> <<>>, confirm |-> <<>>, level |-> "U"],
     [username |-> "carol", password |-> <<"p">>, confirm |-> <<"q">>, level |-> "U"],
     [username |-> "alice", password |-> <<"p">>, confirm |-> <<"p">>, level |-> "U"]}
    \cup {[username |-> "carol", password |-> <<"p">>, confirm |-> <<"p">>,
           level |-> l] : l \in BodyLevels}

NoUser == [id |-> 0, username |-> "", level |-> ""]
NoRow == [id |-> 0, username |-> "", password |-> <<>>, level |-> ""]

\* the levels argument of requireRole: an array of codes or a single code
LevelArgs ==
    {[isArray |-> TRUE, items |-> S, item |-> ""] :
        S \in {{}, {"M"}, {"M", "U"}}}
    \cup {[isArray |-> FALSE, items |-> {}, item |-> "U"]}
ManagerOnly == [isArray |-> TRUE, items |-> {"M"}, item |-> ""]
NoLevels == [isArray |-> TRUE, items |-> {}, item |-> ""]

----------------------------------------------------------------------------
(* Responses *)

NoResp == [kind |-> "none", status |-> 0, target |-> "", message |-> ""]
Redirect(to, flash) ==
    [kind |-> "redirect", status |-> 302, target |-> to, message |-> flash]
Render(st, view, msg) ==
    [kind |-> "render", status |-> st, target |-> view, message |-> msg]
Send(body) ==
    [kind |-> "send", status |-> 200, target |-> "", message |-> body]
Json(st, body) ==
    [kind |-> "json", status |-> st, target |-> "", message |-> body]
SendStatus(st, body) ==
    [kind |-> "send", status |-> st, target |-> "", message |-> body]

\* what becomes of a request whose async handler rejects outside every try
\* block depends on the major version of Express, which the repository does
\* not pin: version 5 passes the rejection to its default error handler,
\* which answers 500; version 4 does not observe the promise and the
\* request stays unanswered
DefaultErrorHandler == SendStatus(500, "Internal Server Error")

----------------------------------------------------------------------------
(* The process environment and the session middleware built from it *)

\* an environment variable that is not set is ""
NodeEnvs == {"production", "Production", "development", ""}
Secrets == {"", "k"}
Envs == [NODE_ENV : NodeEnvs, SESSION_SECRET : Secrets]
DevEnv == [NODE_ENV |-> "development", SESSION_SECRET |-> ""]

SESSION_SECRET(e) ==
    IF e.SESSION_SECRET # "" THEN e.SESSION_SECRET
    ELSE "dev-session-secret-change-me"

\* the cookie marked secure in every environment
sessionMiddlewareAlwaysSecure(e) ==
    [secret |-> SESSION_SECRET(e), resave |-> FALSE,
     saveUninitialized |-> FALSE,
     cookie |-> [httpOnly |-> TRUE, sameSite |-> "lax", secure |-> TRUE]]

sessionMiddleware(e) ==
    [secret |-> SESSION_SECRET(e), resave |-> FALSE,
     saveUninitialized |-> FALSE,
     cookie |-> [httpOnly |-> TRUE, sameSite |-> "lax",
                 secure |-> (e.NODE_ENV = "production")]]

----------------------------------------------------------------------------
(* bcrypt and the string test of the login handler *)

startsWith(s, marker) == Len(s) >= 1 /\ s[1] = marker

bcryptHash(pw, salt) == <<"$2", salt>> \o pw

bcryptCompare(pw, stored) ==
    /\ Len(stored) >= 2
    /\ stored[1] = "$2"
    /\ bcryptHash(pw, stored[2]) = stored

----------------------------------------------------------------------------
(* The users table *)

FindByUsername(tbl, u) ==
    IF \E row \in tbl : row.username = u
    THEN CHOOSE row \in tbl : row.username = u
    ELSE NoRow

\* an UPDATE whose WHERE clause matches no row
UpdatePasswordNoRow(tbl, id, h) ==
    {IF row.id = 0 THEN [row EXCEPT !.password = h] ELSE row : row \in tbl}

UpdatePassword(tbl, id, h) ==
    {IF row.id = id THEN [row EXCEPT !.password = h] ELSE row : row \in tbl}

UsernameTaken(tbl, u) == \E row \in tbl : row.username = u

InsertUser(tbl, id, u, h, l) ==
    tbl \cup {[id |-> id, username |-> u, password |-> h, level |-> l]}

FindById(tbl, id) ==
    IF \E row \in tbl : row.id = id
    THEN CHOOSE row \in tbl : row.id = id
    ELSE NoRow

\* UPDATE users SET username, level [, password] WHERE id; h = <<>> when the
\* form carried no new password
UpdateUser(tbl, id, u, l, h) ==
    {IF row.id = id
     THEN [row EXCEPT !.username = u, !.level = l,
                      !.password = IF h = <<>> THEN @ ELSE h]
     ELSE row : row \in tbl}

\* the unique index on username, seen by an UPDATE of row id
UsernameTakenByOther(tbl, id, u) ==
    \E row \in tbl : row.username = u /\ row.id # id

DeleteById(tbl, id) == {row \in tbl : row.id # id}

----------------------------------------------------------------------------
(* The other tables: participants, donations, surveys, events and event   *)
(* occurrences, each with the next value of its serial key                 *)

EmptyDb ==
    [participants |-> {}, donations |-> {}, surveys |-> {},
     events |-> {}, eventoccurrences |-> {},
     nextParticipant |-> 1, nextDonation |-> 1, nextSurvey |-> 1,
     nextEvent |-> 1, nextOccurrence |-> 1]

Participant(id, first, last) ==
    [participantid |-> id, participantfirstname |-> first,
     participantlastname |-> last]

Donation(id, pid, date, amount) ==
    [donationid |-> id, participantid |-> pid, donationdate |-> date,
     donationamount |-> amount]

\* one participant with one donation
OneDonationDb ==
    [EmptyDb EXCEPT !.participants = {Participant(1, "Pat", "Poe")},
                    !.donations = {Donation(1, 1, "d1", 10)},
                    !.nextParticipant = 2, !.nextDonation = 2]

\* the process started in development with empty record tables
InitRest ==
    /\ db = EmptyDb
    /\ env = DevEnv
    /\ sessionOpts = sessionMiddleware(env)

----------------------------------------------------------------------------
(* The authorization gate *)

requireAuthManagersOnly(user) ==
    IF user = NoUser \/ user.level # "M"
    THEN [next |-> FALSE, resp |-> Redirect("/login", "")]
    ELSE [next |-> TRUE, resp |-> NoResp]

requireAuth(user) ==
    IF user = NoUser
    THEN [next |-> FALSE, resp |-> Redirect("/login", "")]
    ELSE [next |-> TRUE, resp |-> NoResp]

Forbidden ==
    Render(403, "auth/login", "You are not authorized to view that page.")

\* the role test placed before the session test
requireRoleRoleFirst(levels, user) ==
    LET allowed == IF levels.isArray THEN levels.items ELSE {levels.item}
    IN  IF user.level \notin allowed
        THEN [next |-> FALSE, resp |-> Forbidden]
        ELSE IF user = NoUser
             THEN [next |-> FALSE, resp |-> Redirect("/login", "")]
             ELSE [next |-> TRUE, resp |-> NoResp]

\* a wrong role sent to the login page like a missing session
requireRoleAlwaysLogin(levels, user) ==
    LET allowed == IF levels.isArray THEN levels.items ELSE {levels.item}
    IN  IF user = NoUser \/ user.level \notin allowed
        THEN [next |-> FALSE, resp |-> Redirect("/login", "")]
        ELSE [next |-> TRUE, resp |-> NoResp]

\* the decision taken on the username instead of the level
requireRoleByName(levels, user) ==
    LET allowed == IF levels.isArray THEN levels.items ELSE {levels.item}
    IN  IF user = NoUser
        THEN [next |-> FALSE, resp |-> Redirect("/login", "")]
        ELSE IF user.username # "alice" /\ user.level \notin allowed
             THEN [next |-> FALSE, resp |-> Forbidden]
             ELSE [next |-> TRUE, resp |-> NoResp]

requireRole(levels, user) ==
    LET allowed == IF levels.isArray THEN levels.items ELSE {levels.item}
    IN  IF user = NoUser
        THEN [next |-> FALSE, resp |-> Redirect("/login", "")]
        ELSE IF user.level \notin allowed
             THEN [next |-> FALSE, resp |-> Forbidden]
             ELSE [next |-> TRUE, resp |-> NoResp]

----------------------------------------------------------------------------
(* Requests *)

\* what a list route computed for its query: nothing yet
NoList ==
    [page |-> 0, offset |-> 0, total |-> 0, totalPages |-> 0,
     orderBy |-> "", direction |-> ""]

IdleReq ==
    [route |-> "none", sid |-> 0, pc |-> "done", gate |-> "none",
     levels |-> NoLevels, sessUser |-> NoUser, ran |-> FALSE,
     ctlUser |-> NoUser, username |-> "", password |-> <<>>,
     confirm |-> <<>>, level |-> "", row |-> NoRow, hash |-> <<>>,
     err |-> "none", logged |-> FALSE, resp |-> NoResp, id |-> 0,
     form |-> [none |-> TRUE], newId |-> 0, list |-> NoList]

Slots == DOMAIN reqs

Free(r) == reqs[r].pc = "done"

\* a request of a gated route rt arriving on session s; sessUser is the
\* req.session.user the gate reads
NewReq(rt, s) ==
    [IdleReq EXCEPT !.route = rt, !.sid = s, !.sessUser = session[s]]

----------------------------------------------------------------------------
(* Initial states *)

\* alice's password is legacy plain text or hashed; bob's is hashed
InitUsers ==
    {{[id |-> 1, username |-> "alice", password |-> pa, level |-> "M"],
      [id |-> 2, username |-> "bob",
       password |-> bcryptHash(<<"q">>, SaltNames[1]), level |-> "U"]} :
        pa \in {<<"p">>, bcryptHash(<<"p">>, SaltNames[1])}}

InitWith(n) ==
    /\ users \in InitUsers
    /\ nextId = 3
    /\ session = [s \in 1..MaxSessions |-> NoUser]
    /\ reqs = [r \in 1..n |-> IdleReq]
    /\ InitRest

Init == InitWith(MaxReqs)

----------------------------------------------------------------------------
(* GET /dashboard: requireAuth, then render the session user *)

Dashboard(r, s) ==
    /\ Free(r)
    /\ LET q == NewReq("dashboard", s)
           g == requireAuth(q.sessUser)
       IN  reqs' = [reqs EXCEPT ![r] =
                IF g.next
                THEN [q EXCEPT !.gate = "auth", !.ran = TRUE,
                               !.ctlUser = q.sessUser,
                               !.resp = Render(200, "index", q.sessUser.username)]
                ELSE [q EXCEPT !.gate = "auth", !.resp = g.resp]]
    /\ UNCHANGED <<users, nextId, session>>
    /\ UNCHANGED <<db, env, sessionOpts>>

(* a route declared with requireRole(levels) whose controller renders a page *)
RoleGated(r, s, levels) ==
    /\ Free(r)
    /\ LET q == NewReq("gated", s)
           g == requireRole(levels, q.sessUser)
       IN  reqs' = [reqs EXCEPT ![r] =
                IF g.next
                THEN [q EXCEPT !.gate = "role", !.levels = levels,
                               !.ran = TRUE, !.ctlUser = q.sessUser,
                               !.resp = Render(200, "page", "")]
                ELSE [q EXCEPT !.gate = "role", !.levels = levels,
                               !.resp = g.resp]]
    /\ UNCHANGED <<users, nextId, session>>
    /\ UNCHANGED <<db, env, sessionOpts>>

----------------------------------------------------------------------------
(* POST /login *)

LoginUnknownUserNamed == Redirect("/login", "No account with that username.")

LoginUnknownUser == Redirect("/login", "Invalid username or password.")
LoginBadPassword == Redirect("/login", "Invalid username or password.")
LoginSuccess == Redirect("/landing", "")

\* the catch block sending the error's text to the client
LoginCatchDetailed == Send("Login error: connect ECONNREFUSED")

LoginCatch == Send("Login error")

\* the marker test written for one bcrypt version only
IsHashed2b(stored) == startsWith(stored, "$2b")

IsHashed(stored) == startsWith(stored, "$2")

\* every session made a manager's
SessionSnapshotManager(row) ==
    [id |-> row.id, username |-> row.username, level |-> "M"]

SessionSnapshot(row) ==
    [id |-> row.id, username |-> row.username, level |-> row.level]

\* the response leaves; the handler's locals go with it
Respond(q, resp) ==
    [q EXCEPT !.pc = "done", !.resp = resp, !.row = NoRow, !.hash = <<>>]

\* control passes to the catch block with the error thrown at site
Throw(q, site) == [q EXCEPT !.pc = "respond", !.err = site]

\* the account lookup; the query either answers or throws
LoginLookup(r, s, u, p) ==
    /\ Free(r)
    /\ LET q == [IdleReq EXCEPT !.route = "login", !.sid = s,
                                 !.username = u, !.password = p]
       IN  \/ reqs' = [reqs EXCEPT ![r] =
                    [q EXCEPT !.pc = "verify", !.row = FindByUsername(users, u)]]
           \/ reqs' = [reqs EXCEPT ![r] = Throw(q, "lookup")]
    /\ UNCHANGED <<users, nextId, session>>
    /\ UNCHANGED <<db, env, sessionOpts>>

\* from the lookup's answer to the response, or to the upgrade's UPDATE
LoginVerify(r) ==
    /\ reqs[r].route = "login" /\ reqs[r].pc = "verify"
    /\ LET q == reqs[r]
           row == q.row
       IN  IF row = NoRow
           THEN /\ reqs' = [reqs EXCEPT ![r] = Respond(q, LoginUnknownUser)]
                /\ UNCHANGED session
           ELSE IF IsHashed(row.password)
           THEN \/ /\ bcryptCompare(q.password, row.password)
                   /\ session' = [session EXCEPT ![q.sid] = SessionSnapshot(row)]
                   /\ reqs' = [reqs EXCEPT ![r] = Respond(q, LoginSuccess)]
                \/ /\ ~bcryptCompare(q.password, row.password)
                   /\ reqs' = [reqs EXCEPT ![r] = Respond(q, LoginBadPassword)]
                   /\ UNCHANGED session
                \/ /\ reqs' = [reqs EXCEPT ![r] = Throw(q, "compare")]
                   /\ UNCHANGED session
           ELSE IF row.password = q.password
           THEN /\ \/ \E salt \in Salts :
                        reqs' = [reqs EXCEPT ![r] =
                            [q EXCEPT !.pc = "update",
                                      !.hash = bcryptHash(q.password, salt)]]
                   \/ reqs' = [reqs EXCEPT ![r] = Throw(q, "hash")]
                /\ UNCHANGED session
           ELSE /\ reqs' = [reqs EXCEPT ![r] = Respond(q, LoginBadPassword)]
                /\ UNCHANGED session
    /\ UNCHANGED <<users, nextId>>
    /\ UNCHANGED <<db, env, sessionOpts>>

\* an upgrade that rejects the login when the row is no longer the one read
LoginUpdateIfUnchanged(r) ==
    /\ reqs[r].route = "login" /\ reqs[r].pc = "update"
    /\ \/ /\ reqs[r].row \in users
          /\ users' = UpdatePassword(users, reqs[r].row.id, reqs[r].hash)
          /\ reqs' = [reqs EXCEPT ![r].pc = "respond"]
       \/ /\ reqs[r].row \notin users
          /\ reqs' = [reqs EXCEPT ![r] = Respond(reqs[r], LoginBadPassword)]
          /\ UNCHANGED users
       \/ /\ reqs' = [reqs EXCEPT ![r] = Throw(reqs[r], "update")]
          /\ UNCHANGED users
    /\ UNCHANGED <<nextId, session>>
    /\ UNCHANGED <<db, env, sessionOpts>>

\* the upgrade's UPDATE reaches the table, or throws
LoginUpdate(r) ==
    /\ reqs[r].route = "login" /\ reqs[r].pc = "update"
    /\ \/ /\ users' = UpdatePassword(users, reqs[r].row.id, reqs[r].hash)
          /\ reqs' = [reqs EXCEPT ![r].pc = "respond"]
       \/ /\ reqs' = [reqs EXCEPT ![r] = Throw(reqs[r], "update")]
          /\ UNCHANGED users
    /\ UNCHANGED <<nextId, session>>
    /\ UNCHANGED <<db, env, sessionOpts>>

\* the end of the try block, or the catch block
LoginRespond(r) ==
    /\ reqs[r].route = "login" /\ reqs[r].pc = "respond"
    /\ LET q == reqs[r]
       IN  IF q.err = "none"
           THEN /\ session' = [session EXCEPT ![q.sid] = SessionSnapshot(q.row)]
                /\ reqs' = [reqs EXCEPT ![r] = Respond(q, LoginSuccess)]
           ELSE /\ reqs' = [reqs EXCEPT ![r] =
                        Respond([q EXCEPT !.logged = TRUE], LoginCatch)]
                /\ UNCHANGED session
    /\ UNCHANGED <<users, nextId>>
    /\ UNCHANGED <<db, env, sessionOpts>>

----------------
(* GET /logout *)

\* a logout that redirects without destroying the session
LogoutKeepsUser(r, s) ==
    /\ Free(r)
    /\ session' = session
    /\ reqs' = [reqs EXCEPT ![r] =
            [IdleReq EXCEPT !.route = "logout", !.sid = s,
                            !.resp = Redirect("/landing", "")]]
    /\ UNCHANGED <<users, nextId>>
    /\ UNCHANGED <<db, env, sessionOpts>>

\* a destroy that reports an error when the session holds no user
LogoutStrict(r, s) ==
    /\ Free(r)
    /\ session' = [session EXCEPT ![s] = NoUser]
    /\ reqs' = [reqs EXCEPT ![r] =
            [IdleReq EXCEPT !.route = "logout", !.sid = s,
                            !.err = IF session[s] = NoUser THEN "destroy"
                                    ELSE "none",
                            !.resp = IF session[s] = NoUser
                                     THEN Send("Logout error")
                                     ELSE Redirect("/landing", "")]]
    /\ UNCHANGED <<users, nextId>>
    /\ UNCHANGED <<db, env, sessionOpts>>

Logout(r, s) ==
    /\ Free(r)
    /\ session' = [session EXCEPT ![s] = NoUser]
    /\ reqs' = [reqs EXCEPT ![r] =
            [IdleReq EXCEPT !.route = "logout", !.sid = s,
                            !.resp = Redirect("/landing", "")]]
    /\ UNCHANGED <<users, nextId>>
    /\ UNCHANGED <<db, env, sessionOpts>>

----------------------------------------------------------------------------
(* The two steps that POST /create-account and POST /addUser both take   *)

\* await bcrypt.hash(password, 10)
HashStep(r, rt) ==
    /\ reqs[r].route = rt /\ reqs[r].pc = "hash"
    /\ \/ \E salt \in Salts :
            reqs' = [reqs EXCEPT ![r].pc = "insert",
                                 ![r].hash = bcryptHash(reqs[r].password, salt)]
       \/ reqs' = [reqs EXCEPT ![r] = Throw(reqs[r], "hash")]
    /\ UNCHANGED <<users, nextId, session>>
    /\ UNCHANGED <<db, env, sessionOpts>>

\* await db("users").insert(newUser); username carries a unique index
InsertStep(r, rt) ==
    /\ reqs[r].route = rt /\ reqs[r].pc = "insert"
    /\ LET q == reqs[r]
       IN  \/ /\ UsernameTaken(users, q.username)
              /\ reqs' = [reqs EXCEPT ![r] = Throw(q, "23505")]
              /\ UNCHANGED <<users, nextId>>
           \/ /\ ~UsernameTaken(users, q.username)
              /\ nextId <= MaxUsers
              /\ users' = InsertUser(users, nextId, q.username, q.hash, q.level)
              /\ nextId' = nextId + 1
              /\ reqs' = [reqs EXCEPT ![r].pc = "respond"]
           \/ /\ reqs' = [reqs EXCEPT ![r] = Throw(q, "insert")]
              /\ UNCHANGED <<users, nextId>>
    /\ UNCHANGED session
    /\ UNCHANGED <<db, env, sessionOpts>>

----------------------------------------------------------------------------
(* POST /create-account *)

CreateAccountRequired ==
    Render(400, "auth/create-account", "Username and password are required.")
CreateAccountSuccess == Redirect("/login", "")

\* the catch block without the test of the error code
CreateAccountCatchGeneric(code) ==
    Redirect("/create-account", "Unable to save user. Please try again.")

CreateAccountCatch(code) ==
    IF code = "23505"
    THEN Redirect("/create-account", "Username is already taken.")
    ELSE Redirect("/create-account", "Unable to save user. Please try again.")

\* the account given the level that the body carries
CreateAccountBodyLevel(r, u, p, l) ==
    /\ Free(r)
    /\ LET q == [IdleReq EXCEPT !.route = "create-account",
                    !.username = u, !.password = p, !.form = [level |-> l],
                    !.level = IF l = "" THEN "U" ELSE l]
       IN  reqs' = [reqs EXCEPT ![r] =
                IF u = "" \/ p = <<>>
                THEN [q EXCEPT !.resp = CreateAccountRequired]
                ELSE [q EXCEPT !.pc = "hash"]]
    /\ UNCHANGED <<users, nextId, session>>
    /\ UNCHANGED <<db, env, sessionOpts>>

\* l is the level field of the body, which the handler does not read
CreateAccount(r, u, p, l) ==
    /\ Free(r)
    /\ LET q == [IdleReq EXCEPT !.route = "create-account",
                    !.username = u, !.password = p, !.form = [level |-> l],
                    !.level = "U"]
       IN  reqs' = [reqs EXCEPT ![r] =
                IF u = "" \/ p = <<>>
                THEN [q EXCEPT !.resp = CreateAccountRequired]
                ELSE [q EXCEPT !.pc = "hash"]]
    /\ UNCHANGED <<users, nextId, session>>
    /\ UNCHANGED <<db, env, sessionOpts>>

CreateAccountHash(r) == HashStep(r, "create-account")

CreateAccountInsert(r) == InsertStep(r, "create-account")

CreateAccountRespond(r) ==
    /\ reqs[r].route = "create-account" /\ reqs[r].pc = "respond"
    /\ reqs' = [reqs EXCEPT ![r] =
            Respond([reqs[r] EXCEPT !.logged = (reqs[r].err # "none")],
                    IF reqs[r].err = "none"
                    THEN CreateAccountSuccess
                    ELSE CreateAccountCatch(reqs[r].err))]
    /\ UNCHANGED <<users, nextId, session>>
    /\ UNCHANGED <<db, env, sessionOpts>>

----------------------------------------------------------------------------
(* POST /addUser *)

AddUserRequired == Redirect("/addUser", "Username and password are required.")
AddUserMismatch == Redirect("/addUser", "Passwords do not match.")
AddUserSuccess == Redirect("/users", "User created.")

AddUserCatch(code) ==
    Redirect("/addUser", "Unable to save user. Please try again.")

AddUser(r, s, u, p, c, l) ==
    /\ Free(r)
    /\ LET q == [NewReq("addUser", s) EXCEPT
                    !.gate = "role", !.levels = ManagerOnly,
                    !.username = u, !.password = p, !.confirm = c, !.level = l]
           g == requireRole(ManagerOnly, q.sessUser)
       IN  reqs' = [reqs EXCEPT ![r] =
                IF ~g.next
                THEN [q EXCEPT !.resp = g.resp]
                ELSE IF u = "" \/ p = <<>>
                THEN [q EXCEPT !.ran = TRUE, !.ctlUser = q.sessUser,
                               !.resp = AddUserRequired]
                ELSE IF p # c
                THEN [q EXCEPT !.ran = TRUE, !.ctlUser = q.sessUser,
                               !.resp = AddUserMismatch]
                ELSE [q EXCEPT !.ran = TRUE, !.ctlUser = q.sessUser,
                               !.pc = "hash"]]
    /\ UNCHANGED <<users, nextId, session>>
    /\ UNCHANGED <<db, env, sessionOpts>>

AddUserHash(r) == HashStep(r, "addUser")

AddUserInsert(r) == InsertStep(r, "addUser")

AddUserRespond(r) ==
    /\ reqs[r].route = "addUser" /\ reqs[r].pc = "respond"
    /\ reqs' = [reqs EXCEPT ![r] =
            Respond([reqs[r] EXCEPT !.logged = (reqs[r].err # "none")],
                    IF reqs[r].err = "none"
                    THEN AddUserSuccess
                    ELSE AddUserCatch(reqs[r].err))]
    /\ UNCHANGED <<users, nextId, session>>
    /\ UNCHANGED <<db, env, sessionOpts>>

----------------------------------------------------------------------------
(* POST /deleteUser/:id *)

DeleteUserSuccess == Redirect("/users", "User deleted.")
DeleteUserCatch == Json(500, "err")

DeleteUser(r, s, id) ==
    /\ Free(r)
    /\ LET q == [NewReq("deleteUser", s) EXCEPT
                    !.gate = "role", !.levels = ManagerOnly, !.id = id]
           g == requireRole(ManagerOnly, q.sessUser)
       IN  reqs' = [reqs EXCEPT ![r] =
                IF ~g.next
                THEN [q EXCEPT !.resp = g.resp]
                ELSE [q EXCEPT !.ran = TRUE, !.ctlUser = q.sessUser,
                               !.pc = "delete"]]
    /\ UNCHANGED <<users, nextId, session, db, env, sessionOpts>>

\* the DELETE also ending the sessions of the deleted account
DeleteUserDoneSignOut(r) ==
    /\ reqs[r].route = "deleteUser" /\ reqs[r].pc = "delete"
    /\ users' = DeleteById(users, reqs[r].id)
    /\ session' = [s \in SessionIds |->
                      IF session[s].id = reqs[r].id THEN NoUser ELSE session[s]]
    /\ reqs' = [reqs EXCEPT ![r] = Respond(reqs[r], DeleteUserSuccess)]
    /\ UNCHANGED <<nextId, db, env, sessionOpts>>

\* the DELETE reaches the table (whether or not a row matched), or throws
DeleteUserDone(r) ==
    /\ reqs[r].route = "deleteUser" /\ reqs[r].pc = "delete"
    /\ \/ /\ users' = DeleteById(users, reqs[r].id)
          /\ reqs' = [reqs EXCEPT ![r] = Respond(reqs[r], DeleteUserSuccess)]
       \/ /\ reqs' = [reqs EXCEPT ![r] =
                    Respond([reqs[r] EXCEPT !.err = "delete", !.logged = TRUE],
                            DeleteUserCatch)]
          /\ UNCHANGED users
    /\ UNCHANGED <<nextId, session, db, env, sessionOpts>>

----------------------------------------------------------------------------
(* POST /editUser/:id *)

\* String.prototype.trim on a sequence of tokens; " " is white space
RECURSIVE TrimStart(_)
TrimStart(p) ==
    IF p # <<>> /\ Head(p) = " " THEN TrimStart(Tail(p)) ELSE p

RECURSIVE TrimEnd(_)
TrimEnd(p) ==
    IF p # <<>> /\ p[Len(p)] = " " THEN TrimEnd(SubSeq(p, 1, Len(p) - 1))
    ELSE p

trim(p) == TrimEnd(TrimStart(p))

\* the test without the trim
PasswordGivenUntrimmed(p) == p # <<>>

\* password && password.trim() !== ""
PasswordGiven(p) == p # <<>> /\ trim(p) # <<>>

EditUserNotFound == Render(404, "users/displayUsers", "User not found.")
EditUserRequired == Render(400, "users/editUser", "Username is required.")
EditUserLoadFailed ==
    Render(500, "users/displayUsers", "Unable to load user for editing.")
EditUserMismatch == Redirect("/editUser/:id", "Passwords do not match.")
EditUserNoRow == Redirect("/users", "User not found.")
EditUserSuccess == Redirect("/users", "User updated.")
EditUserRetry ==
    Redirect("/editUser/:id", "Unable to update user. Please try again.")
EditUserFailed == Redirect("/users", "Unable to update user.")

EditUser(r, s, id, u, p, c, l) ==
    /\ Free(r)
    /\ LET q == [NewReq("editUser", s) EXCEPT
                    !.gate = "role", !.levels = ManagerOnly, !.id = id,
                    !.username = u, !.password = p, !.confirm = c, !.level = l]
           g == requireRole(ManagerOnly, q.sessUser)
           k == [q EXCEPT !.ran = TRUE, !.ctlUser = q.sessUser]
       IN  reqs' = [reqs EXCEPT ![r] =
                IF ~g.next THEN [q EXCEPT !.resp = g.resp]
                ELSE IF u = "" THEN [k EXCEPT !.pc = "load"]
                ELSE IF PasswordGiven(p)
                THEN IF p # c THEN [k EXCEPT !.resp = EditUserMismatch]
                     ELSE [k EXCEPT !.pc = "hash"]
                ELSE [k EXCEPT !.pc = "update"]]
    /\ UNCHANGED <<users, nextId, session, db, env, sessionOpts>>

\* no username in the form: the account is looked up for the error page
EditUserLoad(r) ==
    /\ reqs[r].route = "editUser" /\ reqs[r].pc = "load"
    /\ \/ reqs' = [reqs EXCEPT ![r] =
                Respond(reqs[r], IF FindById(users, reqs[r].id) = NoRow
                                 THEN EditUserNotFound
                                 ELSE EditUserRequired)]
       \/ reqs' = [reqs EXCEPT ![r] =
                Respond([reqs[r] EXCEPT !.err = "load", !.logged = TRUE],
                        EditUserLoadFailed)]
    /\ UNCHANGED <<users, nextId, session, db, env, sessionOpts>>

\* the password passed on as it was posted
EditUserHashSkipped(r) ==
    /\ reqs[r].route = "editUser" /\ reqs[r].pc = "hash"
    /\ \/ reqs' = [reqs EXCEPT ![r].pc = "update",
                               ![r].hash = reqs[r].password]
       \/ reqs' = [reqs EXCEPT ![r].pc = "hung", ![r].err = "hash"]
       \/ reqs' = [reqs EXCEPT ![r] =
                Respond([reqs[r] EXCEPT !.err = "hash"], DefaultErrorHandler)]
    /\ UNCHANGED <<users, nextId, session, db, env, sessionOpts>>

\* await bcrypt.hash(password, 10), outside every try block: a rejection
\* leaves the handler without a response of its own
EditUserHash(r) ==
    /\ reqs[r].route = "editUser" /\ reqs[r].pc = "hash"
    /\ \/ \E salt \in Salts :
            reqs' = [reqs EXCEPT ![r].pc = "update",
                                 ![r].hash = bcryptHash(reqs[r].password, salt)]
       \/ reqs' = [reqs EXCEPT ![r].pc = "hung", ![r].err = "hash"]
       \/ reqs' = [reqs EXCEPT ![r] =
                Respond([reqs[r] EXCEPT !.err = "hash"], DefaultErrorHandler)]
    /\ UNCHANGED <<users, nextId, session, db, env, sessionOpts>>

\* the UPDATE: rows matched or none, or it throws (a username taken by
\* another row, or any other failure) and the catch block takes over
EditUserUpdate(r) ==
    /\ reqs[r].route = "editUser" /\ reqs[r].pc = "update"
    /\ LET q == reqs[r]
       IN  \/ /\ ~UsernameTakenByOther(users, q.id, q.username)
              /\ users' = UpdateUser(users, q.id, q.username, q.level, q.hash)
              /\ reqs' = [reqs EXCEPT ![r] =
                        Respond(q, IF FindById(users, q.id) = NoRow
                                   THEN EditUserNoRow ELSE EditUserSuccess)]
           \/ /\ UsernameTakenByOther(users, q.id, q.username)
              /\ FindById(users, q.id) # NoRow
              /\ reqs' = [reqs EXCEPT ![r] =
                        [q EXCEPT !.pc = "refetch", !.err = "23505",
                                  !.logged = TRUE]]
              /\ UNCHANGED users
           \/ /\ UsernameTakenByOther(users, q.id, q.username)
              /\ FindById(users, q.id) = NoRow
              /\ reqs' = [reqs EXCEPT ![r] = Respond(q, EditUserNoRow)]
              /\ UNCHANGED users
           \/ /\ reqs' = [reqs EXCEPT ![r] =
                        [q EXCEPT !.pc = "refetch", !.err = "update",
                                  !.logged = TRUE]]
              /\ UNCHANGED users
    /\ UNCHANGED <<nextId, session, db, env, sessionOpts>>

\* the catch block looks the account up again to choose its redirect
EditUserRefetch(r) ==
    /\ reqs[r].route = "editUser" /\ reqs[r].pc = "refetch"
    /\ \/ reqs' = [reqs EXCEPT ![r] =
                Respond(reqs[r], IF FindById(users, reqs[r].id) = NoRow
                                 THEN EditUserNoRow
                                 ELSE EditUserRetry)]
       \/ reqs' = [reqs EXCEPT ![r] = Respond(reqs[r], EditUserFailed)]
    /\ UNCHANGED <<users, nextId, session, db, env, sessionOpts>>

----------------------------------------------------------------------------
(* The donations router: no route of it is declared with a gate *)

\* GET /deleteDonation/:donationid
DeleteDonation(r, s, id) ==
    /\ Free(r)
    /\ reqs' = [reqs EXCEPT ![r] =
            [NewReq("deleteDonation", s) EXCEPT
                !.ran = TRUE, !.ctlUser = session[s], !.id = id,
                !.pc = "delete"]]
    /\ UNCHANGED <<users, nextId, session, db, env, sessionOpts>>

DeleteDonationDone(r) ==
    /\ reqs[r].route = "deleteDonation" /\ reqs[r].pc = "delete"
    /\ \/ /\ db' = [db EXCEPT !.donations =
                        {x \in @ : x.donationid # reqs[r].id}]
          /\ reqs' = [reqs EXCEPT ![r] =
                    Respond(reqs[r], Redirect("/donations", "Donation deleted."))]
       \/ /\ reqs' = [reqs EXCEPT ![r] =
                    Respond([reqs[r] EXCEPT !.err = "delete", !.logged = TRUE],
                            Send("Error deleting donation"))]
          /\ UNCHANGED db
    /\ UNCHANGED <<users, nextId, session, env, sessionOpts>>

\* POST /editDonation/:donationid
EditDonation(r, s, id, f) ==
    /\ Free(r)
    /\ reqs' = [reqs EXCEPT ![r] =
            [NewReq("editDonation", s) EXCEPT
                !.ran = TRUE, !.ctlUser = session[s], !.id = id, !.form = f,
                !.pc = "update"]]
    /\ UNCHANGED <<users, nextId, session, db, env, sessionOpts>>

EditDonationDone(r) ==
    /\ reqs[r].route = "editDonation" /\ reqs[r].pc = "update"
    /\ LET q == reqs[r]
       IN  \/ /\ db' = [db EXCEPT !.donations =
                    {IF x.donationid = q.id
                     THEN [x EXCEPT !.donationdate = q.form.donationdate,
                                    !.donationamount = q.form.donationamount]
                     ELSE x : x \in @}]
              /\ reqs' = [reqs EXCEPT ![r] =
                        Respond(q, Redirect("/donations", "Donation updated."))]
           \/ /\ reqs' = [reqs EXCEPT ![r] =
                        Respond([q EXCEPT !.err = "update", !.logged = TRUE],
                                Redirect("/editDonation/:id",
                                         "Error updating donation."))]
              /\ UNCHANGED db
    /\ UNCHANGED <<users, nextId, session, env, sessionOpts>>

\* POST /addDonation: a participant row, then the donation that refers to it
AddDonationCatch == Redirect("/addDonation", "Error adding donation.")

AddDonation(r, s, f) ==
    /\ Free(r)
    /\ reqs' = [reqs EXCEPT ![r] =
            [NewReq("addDonation", s) EXCEPT
                !.ran = TRUE, !.ctlUser = session[s], !.form = f,
                !.pc = "participant"]]
    /\ UNCHANGED <<users, nextId, session, db, env, sessionOpts>>

AddDonationParticipant(r) ==
    /\ reqs[r].route = "addDonation" /\ reqs[r].pc = "participant"
    /\ LET q == reqs[r]
       IN  \/ /\ db.nextParticipant <= MaxRecords
              /\ db' = [db EXCEPT
                    !.participants = @ \cup
                        {Participant(db.nextParticipant, q.form.firstname,
                                     q.form.lastname)},
                    !.nextParticipant = @ + 1]
              /\ reqs' = [reqs EXCEPT ![r].pc = "donation",
                                      ![r].newId = db.nextParticipant]
           \/ /\ reqs' = [reqs EXCEPT ![r] =
                        Respond([q EXCEPT !.err = "participant",
                                          !.logged = TRUE], AddDonationCatch)]
              /\ UNCHANGED db
    /\ UNCHANGED <<users, nextId, session, env, sessionOpts>>

AddDonationInsert(r) ==
    /\ reqs[r].route = "addDonation" /\ reqs[r].pc = "donation"
    /\ LET q == reqs[r]
       IN  \/ /\ db.nextDonation <= MaxRecords
              /\ db' = [db EXCEPT
                    !.donations = @ \cup
                        {Donation(db.nextDonation, q.newId,
                                  q.form.donationdate, q.form.donationamount)},
                    !.nextDonation = @ + 1]
              /\ reqs' = [reqs EXCEPT ![r] =
                        Respond(q, Redirect("/donations", "Donation added."))]
           \/ /\ reqs' = [reqs EXCEPT ![r] =
                        Respond([q EXCEPT !.err = "donation", !.logged = TRUE],
                                AddDonationCatch)]
              /\ UNCHANGED db
    /\ UNCHANGED <<users, nextId, session, env, sessionOpts>>

----------------------------------------------------------------------------
(* JavaScript numbers and parseInt, as far as the survey handlers use them *)

NaN == [nan |-> TRUE, num |-> 0, den |-> 1]
Num(n) == [nan |-> FALSE, num |-> n, den |-> 1]

Digits == <<"0", "1", "2", "3", "4", "5", "6", "7", "8", "9">>
IsDigit(c) == \E i \in 1..10 : Digits[i] = c
DigitVal(c) == (CHOOSE i \in 1..10 : Digits[i] = c) - 1

\* the value of the longest prefix of digits; acc is the value so far and
\* seen tells whether a digit was read
RECURSIVE ParseDigits(_, _, _)
ParseDigits(p, acc, seen) ==
    IF p # <<>> /\ IsDigit(Head(p))
    THEN ParseDigits(Tail(p), 10 * acc + DigitVal(Head(p)), TRUE)
    ELSE IF seen THEN Num(acc) ELSE NaN

\* parseInt(string): white space, an optional sign, then digits; anything
\* after the digits is ignored and no digit at all gives NaN
parseInt(p) ==
    LET t == TrimStart(p)
    IN  IF t # <<>> /\ Head(t) = "-"
        THEN LET v == ParseDigits(Tail(t), 0, FALSE)
             IN  IF v.nan THEN NaN ELSE Num(0 - v.num)
        ELSE IF t # <<>> /\ Head(t) = "+"
        THEN ParseDigits(Tail(t), 0, FALSE)
        ELSE ParseDigits(t, 0, FALSE)

\* a + b
Plus(a, b) == IF a.nan \/ b.nan THEN NaN ELSE Num(a.num + b.num)

\* the mean with the quotient rounded down to an integer
OverallScoreTruncated(f) ==
    LET scores == <<parseInt(f.surveysatisfactionscore),
                    parseInt(f.surveyusefulnessscore),
                    parseInt(f.surveyinstructorscore),
                    parseInt(f.surveyrecommendationscore)>>
        total == Plus(Plus(Plus(Plus(Num(0), scores[1]), scores[2]),
                           scores[3]), scores[4])
    IN  IF total.nan THEN NaN
        ELSE [nan |-> FALSE, num |-> total.num \div Len(scores), den |-> 1]

\* scores.reduce((a, b) => a + b, 0) / scores.length
OverallScore(f) ==
    LET scores == <<parseInt(f.surveysatisfactionscore),
                    parseInt(f.surveyusefulnessscore),
                    parseInt(f.surveyinstructorscore),
                    parseInt(f.surveyrecommendationscore)>>
        total == Plus(Plus(Plus(Plus(Num(0), scores[1]), scores[2]),
                           scores[3]), scores[4])
    IN  IF total.nan THEN NaN
        ELSE [nan |-> FALSE, num |-> total.num, den |-> Len(scores)]

NpsBucket(f) ==
    LET recScore == parseInt(f.surveyrecommendationscore)
    IN  IF recScore = Num(5) THEN "Promoter"
        ELSE IF recScore = Num(4) THEN "Passive"
        ELSE "Detractor"

\* the row the handlers write: the posted fields and the two derived ones
SurveyRow(id, f) ==
    [surveyid |-> id,
     participantid |-> f.participantid,
     eventoccurrenceid |-> f.eventoccurrenceid,
     surveysatisfactionscore |-> f.surveysatisfactionscore,
     surveyusefulnessscore |-> f.surveyusefulnessscore,
     surveyinstructorscore |-> f.surveyinstructorscore,
     surveyrecommendationscore |-> f.surveyrecommendationscore,
     surveyoverallscore |-> OverallScore(f),
     surveynpsbucket |-> NpsBucket(f),
     surveycomments |-> f.surveycomments]

----------------------------------------------------------------------------
(* POST /addSurvey (requireAuth) and POST /editSurvey/:id (managers) *)

AddSurveyFailed ==
    Render(500, "surveys/addSurvey", "Failed to create survey. Please try again.")

AddSurveySuccess(user) ==
    IF user.level = "M" THEN Redirect("/addSurvey", "Survey created.")
    ELSE Redirect("/addSurvey", "Thank you for your feedback!")

AddSurvey(r, s, f) ==
    /\ Free(r)
    /\ LET q == [NewReq("addSurvey", s) EXCEPT !.gate = "auth", !.form = f]
           g == requireAuth(q.sessUser)
       IN  reqs' = [reqs EXCEPT ![r] =
                IF ~g.next
                THEN [q EXCEPT !.resp = g.resp]
                ELSE [q EXCEPT !.ran = TRUE, !.ctlUser = q.sessUser,
                               !.pc = "insert"]]
    /\ UNCHANGED <<users, nextId, session, db, env, sessionOpts>>

\* the INSERT, or its failure and the catch block's first query
AddSurveyInsert(r) ==
    /\ reqs[r].route = "addSurvey" /\ reqs[r].pc = "insert"
    /\ LET q == reqs[r]
       IN  \/ /\ db.nextSurvey <= MaxSurveys
              /\ db' = [db EXCEPT
                    !.surveys = @ \cup {SurveyRow(db.nextSurvey, q.form)},
                    !.nextSurvey = @ + 1]
              /\ reqs' = [reqs EXCEPT ![r] =
                        Respond(q, AddSurveySuccess(q.ctlUser))]
           \/ /\ reqs' = [reqs EXCEPT ![r] =
                        [q EXCEPT !.pc = "refetch", !.err = "insert",
                                  !.logged = TRUE]]
              /\ UNCHANGED db
    /\ UNCHANGED <<users, nextId, session, env, sessionOpts>>

\* the catch block reads participants and events again for the error page;
\* if that read throws too, the handler rejects without a response
AddSurveyRefetch(r) ==
    /\ reqs[r].route = "addSurvey" /\ reqs[r].pc = "refetch"
    /\ \/ reqs' = [reqs EXCEPT ![r] = Respond(reqs[r], AddSurveyFailed)]
       \/ reqs' = [reqs EXCEPT ![r].pc = "hung"]
       \/ reqs' = [reqs EXCEPT ![r] = Respond(reqs[r], DefaultErrorHandler)]
    /\ UNCHANGED <<users, nextId, session, db, env, sessionOpts>>

EditSurvey(r, s, id, f) ==
    /\ Free(r)
    /\ LET q == [NewReq("editSurvey", s) EXCEPT
                    !.gate = "role", !.levels = ManagerOnly, !.id = id,
                    !.form = f]
           g == requireRole(ManagerOnly, q.sessUser)
       IN  reqs' = [reqs EXCEPT ![r] =
                IF ~g.next
                THEN [q EXCEPT !.resp = g.resp]
                ELSE [q EXCEPT !.ran = TRUE, !.ctlUser = q.sessUser,
                               !.pc = "update"]]
    /\ UNCHANGED <<users, nextId, session, db, env, sessionOpts>>

EditSurveyUpdate(r) ==
    /\ reqs[r].route = "editSurvey" /\ reqs[r].pc = "update"
    /\ LET q == reqs[r]
       IN  \/ /\ db' = [db EXCEPT !.surveys =
                    {IF x.surveyid = q.id THEN SurveyRow(q.id, q.form)
                     ELSE x : x \in @}]
              /\ reqs' = [reqs EXCEPT ![r] =
                        Respond(q, Redirect("/surveys", "Survey updated."))]
           \/ /\ reqs' = [reqs EXCEPT ![r] =
                        Respond([q EXCEPT !.err = "update", !.logged = TRUE],
                                Redirect("/editSurvey/:id",
                                         "Failed to update survey."))]
              /\ UNCHANGED db
    /\ UNCHANGED <<users, nextId, session, env, sessionOpts>>

----------------------------------------------------------------------------
(* POST /deleteParticipant/:id, declared with requireRole(["M"]) *)

DeleteParticipant(r, s, id) ==
    /\ Free(r)
    /\ LET q == [NewReq("deleteParticipant", s) EXCEPT
                    !.gate = "role", !.levels = ManagerOnly, !.id = id]
           g == requireRole(ManagerOnly, q.sessUser)
       IN  reqs' = [reqs EXCEPT ![r] =
                IF ~g.next
                THEN [q EXCEPT !.resp = g.resp]
                ELSE [q EXCEPT !.ran = TRUE, !.ctlUser = q.sessUser,
                               !.pc = "delete"]]
    /\ UNCHANGED <<users, nextId, session, db, env, sessionOpts>>

DeleteParticipantDone(r) ==
    /\ reqs[r].route = "deleteParticipant" /\ reqs[r].pc = "delete"
    /\ \/ /\ db' = [db EXCEPT !.participants =
                        {x \in @ : x.participantid # reqs[r].id}]
          /\ reqs' = [reqs EXCEPT ![r] =
                    Respond(reqs[r],
                            Redirect("/participants", "Participant deleted."))]
       \/ /\ reqs' = [reqs EXCEPT ![r] =
                    Respond([reqs[r] EXCEPT !.err = "delete", !.logged = TRUE],
                            Json(500, "err"))]
          /\ UNCHANGED db
    /\ UNCHANGED <<users, nextId, session, env, sessionOpts>>

----------------------------------------------------------------------------
(* The list routes: query parameters, pagination and the sort column *)

\* a query parameter that was sent, and one that was not: page is read
\* character by character, sortBy and sortOrder as whole names
Param(text) == [given |-> TRUE, text |-> text]
Missing == [given |-> FALSE, text |-> <<>>]
MissingName == [given |-> FALSE, text |-> ""]
NoQuery == [page |-> Missing, sortBy |-> MissingName, sortOrder |-> MissingName]

\* String(n) for a natural number n
RECURSIVE NumberToString(_)
NumberToString(n) ==
    IF n < 10 THEN <<Digits[n + 1]>>
    ELSE NumberToString(n \div 10) \o <<Digits[(n % 10) + 1]>>

\* the string parseInt reads for req.query.page: String(undefined) has no
\* digit
PageText(p) == IF p.given THEN p.text ELSE <<"undefined">>

\* const { page = 1 } = req.query: the default is the number 1
PageTextDefaultOne(p) == IF p.given THEN p.text ELSE NumberToString(1)

\* v || d for a number v: NaN and 0 are falsy
OrNumber(v, d) == IF v.nan \/ v.num = 0 THEN d ELSE v.num

MathMax(a, b) == IF a >= b THEN a ELSE b

\* Math.ceil(a / b) for a >= 0 and b > 0
MathCeilDiv(a, b) == (a + b - 1) \div b

pageSize == 50

\* the page without the lower limit of 1
PaginateUnclamped(text, count) ==
    LET page == OrNumber(parseInt(text), 1)
        total == OrNumber(parseInt(count), 0)
    IN  [page |-> page, offset |-> (page - 1) * pageSize, total |-> total,
         totalPages |-> MathMax(MathCeilDiv(total, pageSize), 1)]

\* page = Math.max(parseInt(req.query.page, 10) || 1, 1);
\* offset = (page - 1) * pageSize; total = parseInt(count, 10) || 0;
\* totalPages = Math.max(Math.ceil(total / pageSize), 1)
Paginate(text, count) ==
    LET page == MathMax(OrNumber(parseInt(text), 1), 1)
        total == OrNumber(parseInt(count), 0)
    IN  [page |-> page, offset |-> (page - 1) * pageSize, total |-> total,
         totalPages |-> MathMax(MathCeilDiv(total, pageSize), 1)]

\* properties every object literal inherits from Object.prototype; their
\* values are functions or objects, all truthy
ObjectPrototype ==
    ("constructor" :> "function Object") @@ ("toString" :> "function toString")
        @@ ("__proto__" :> "Object.prototype")

\* obj[key] for an object literal; "" stands for undefined
Get(obj, key) ==
    IF key \in DOMAIN obj THEN obj[key]
    ELSE IF key \in DOMAIN ObjectPrototype THEN ObjectPrototype[key]
    ELSE ""

\* v || d for a string or undefined v
OrString(v, d) == IF v = "" THEN d ELSE v

\* req.query.k || d
QueryOr(p, d) == IF p.given THEN OrString(p.text, d) ELSE d

\* const { k = d } = req.query
QueryDefault(p, d) == IF p.given THEN p.text ELSE d

UsersSortMap == [username |-> "username", level |-> "level"]

DonationsSortMap ==
    [donor |-> "p.participantlastname", date |-> "d.donationdate",
     amount |-> "d.donationamount"]

ListRender(q, view, lst) ==
    [q EXCEPT !.ran = TRUE, !.ctlUser = q.sessUser, !.list = lst,
              !.resp = Render(200, view, "")]

\* GET /users, declared with requireRole(["M"])
ListUsers(r, s, query) ==
    /\ Free(r)
    /\ LET q == [NewReq("users", s) EXCEPT
                    !.gate = "role", !.levels = ManagerOnly, !.form = query]
           g == requireRole(ManagerOnly, q.sessUser)
           sortBy == QueryOr(query.sortBy, "username")
           sortOrder == QueryOr(query.sortOrder, "asc")
           dbColumn == OrString(Get(UsersSortMap, sortBy), "username")
           lst == [NoList EXCEPT !.orderBy = dbColumn, !.direction = sortOrder]
       IN  IF g.next
           THEN \/ reqs' = [reqs EXCEPT ![r] =
                        ListRender(q, "users/displayUsers", lst)]
                \/ reqs' = [reqs EXCEPT ![r] =
                        [q EXCEPT !.ran = TRUE, !.ctlUser = q.sessUser,
                                  !.list = lst,
                                  !.err = "select", !.logged = TRUE,
                                  !.resp = Render(200, "users/displayUsers",
                                                  "Database error")]]
           ELSE reqs' = [reqs EXCEPT ![r] = [q EXCEPT !.resp = g.resp]]
    /\ UNCHANGED <<users, nextId, session, db, env, sessionOpts>>

\* GET /participants, declared with requireRole(["M"]); count is the
\* database's answer to count(*)
ListParticipants(r, s, query, count) ==
    /\ Free(r)
    /\ LET q == [NewReq("participants", s) EXCEPT
                    !.gate = "role", !.levels = ManagerOnly, !.form = query]
           g == requireRole(ManagerOnly, q.sessUser)
           pg == Paginate(PageText(query.page), count)
           lst == [NoList EXCEPT !.page = pg.page, !.offset = pg.offset,
                                 !.total = pg.total,
                                 !.totalPages = pg.totalPages,
                                 !.orderBy = "participantlastname"]
       IN  IF g.next
           THEN \/ reqs' = [reqs EXCEPT ![r] =
                        ListRender(q, "participants/participants", lst)]
                \/ reqs' = [reqs EXCEPT ![r] =
                        [q EXCEPT !.ran = TRUE, !.ctlUser = q.sessUser,
                                  !.err = "select", !.logged = TRUE,
                                  !.resp = Render(200,
                                                  "participants/participants",
                                                  "Database error")]]
           ELSE reqs' = [reqs EXCEPT ![r] = [q EXCEPT !.resp = g.resp]]
    /\ UNCHANGED <<users, nextId, session, db, env, sessionOpts>>

\* GET /surveys, declared with requireRole(["M"])
ListSurveys(r, s, query, count) ==
    /\ Free(r)
    /\ LET q == [NewReq("surveys", s) EXCEPT
                    !.gate = "role", !.levels = ManagerOnly, !.form = query]
           g == requireRole(ManagerOnly, q.sessUser)
           pg == Paginate(PageText(query.page), count)
           lst == [NoList EXCEPT !.page = pg.page, !.offset = pg.offset,
                                 !.total = pg.total,
                                 !.totalPages = pg.totalPages,
                                 !.orderBy = "surveys.surveyid",
                                 !.direction = "desc"]
       IN  IF g.next
           THEN \/ reqs' = [reqs EXCEPT ![r] =
                        ListRender(q, "surveys/surveys", lst)]
                \/ reqs' = [reqs EXCEPT ![r] =
                        [q EXCEPT !.ran = TRUE, !.ctlUser = q.sessUser,
                                  !.err = "select", !.logged = TRUE,
                                  !.resp = SendStatus(500, "Error loading surveys")]]
           ELSE reqs' = [reqs EXCEPT ![r] = [q EXCEPT !.resp = g.resp]]
    /\ UNCHANGED <<users, nextId, session, db, env, sessionOpts>>

\* GET /events/past, declared without a gate
PastEvents(r, s, query, count) ==
    /\ Free(r)
    /\ LET q == [NewReq("events/past", s) EXCEPT !.form = query]
           pg == Paginate(PageText(query.page), count)
           lst == [NoList EXCEPT !.page = pg.page, !.offset = pg.offset,
                                 !.total = pg.total,
                                 !.totalPages = pg.totalPages,
                                 !.orderBy = "eventoccurrences.eventdatetimestart",
                                 !.direction = "desc"]
       IN  \/ reqs' = [reqs EXCEPT ![r] =
                    ListRender(q, "events/pastEvents", lst)]
           \/ reqs' = [reqs EXCEPT ![r] =
                    [q EXCEPT !.ran = TRUE, !.ctlUser = q.sessUser,
                              !.err = "select", !.logged = TRUE,
                              !.resp = SendStatus(500, "Error loading events")]]
    /\ UNCHANGED <<users, nextId, session, db, env, sessionOpts>>

\* GET /donations, declared without a gate
ListDonations(r, s, query, count) ==
    /\ Free(r)
    /\ LET q == [NewReq("donations", s) EXCEPT !.form = query]
           sortBy == QueryDefault(query.sortBy, "date")
           sortOrder == QueryDefault(query.sortOrder, "desc")
           pg == Paginate(PageTextDefaultOne(query.page), count)
           dbColumn == OrString(Get(DonationsSortMap, sortBy), "d.donationdate")
           lst == [page |-> pg.page, offset |-> pg.offset, total |-> pg.total,
                   totalPages |-> pg.totalPages, orderBy |-> dbColumn,
                   direction |-> sortOrder]
       IN  \/ reqs' = [reqs EXCEPT ![r] =
                    ListRender(q, "donations/donations", lst)]
           \/ reqs' = [reqs EXCEPT ![r] =
                    [q EXCEPT !.ran = TRUE, !.ctlUser = q.sessUser,
                              !.err = "select", !.logged = TRUE,
                              !.resp = Send("Error loading page")]]
    /\ UNCHANGED <<users, nextId, session, db, env, sessionOpts>>

----------------------------------------------------------------------------
(* The event writers.  Each runs its two statements inside db.transaction: *)
(* what the statements wrote becomes visible to others at COMMIT, and a    *)
(* statement that throws rolls everything back.  A serial value taken by   *)
(* an insert is not given back by the rollback.                            *)

EventRow(id, f) ==
    [eventid |-> id, eventname |-> f.name,
     eventdefaultcapacity |-> parseInt(f.capacity)]

OccurrenceRow(oid, id, f) ==
    [eventoccurrenceid |-> oid, eventid |-> id,
     eventlocation |-> f.location, eventcapacity |-> parseInt(f.capacity)]

AddEventFailed == Redirect("/addEvent", "Failed to add event.")
EditEventFailed == Redirect("/editEvent/:id", "Failed to update event.")
DeleteEventFailed == SendStatus(500, "Failed to delete event")

\* a handler behind requireAuth starting its transaction at step pc
BeginGated(r, s, rt, id, f, pc) ==
    /\ Free(r)
    /\ LET q == [NewReq(rt, s) EXCEPT !.gate = "auth", !.id = id, !.form = f]
           g == requireAuth(q.sessUser)
       IN  reqs' = [reqs EXCEPT ![r] =
                IF g.next
                THEN [q EXCEPT !.ran = TRUE, !.ctlUser = q.sessUser, !.pc = pc]
                ELSE [q EXCEPT !.resp = g.resp]]
    /\ UNCHANGED <<users, nextId, session, db, env, sessionOpts>>

\* a statement of a transaction throws: ROLLBACK, then the catch block
Rollback(r, resp) ==
    /\ reqs' = [reqs EXCEPT ![r] =
            Respond([reqs[r] EXCEPT !.err = "transaction", !.logged = TRUE,
                                    !.newId = 0], resp)]
    /\ UNCHANGED <<users, nextId, session, db, env, sessionOpts>>

\* POST /addEvent
AddEvent(r, s, f) == BeginGated(r, s, "addEvent", 0, f, "insertEvent")

\* the insert into events written to the table at once, outside any
\* transaction
AddEventInsertAutocommit(r) ==
    /\ reqs[r].route = "addEvent" /\ reqs[r].pc = "insertEvent"
    /\ \/ /\ db.nextEvent <= MaxEvents
          /\ db' = [db EXCEPT !.nextEvent = @ + 1,
                              !.events = @ \cup
                                  {EventRow(db.nextEvent, reqs[r].form)}]
          /\ reqs' = [reqs EXCEPT ![r].newId = db.nextEvent,
                                  ![r].pc = "insertOccurrence"]
          /\ UNCHANGED <<users, nextId, session, env, sessionOpts>>
       \/ Rollback(r, AddEventFailed)

\* trx("events").insert({...}).returning("eventid")
AddEventInsert(r) ==
    /\ reqs[r].route = "addEvent" /\ reqs[r].pc = "insertEvent"
    /\ \/ /\ db.nextEvent <= MaxEvents
          /\ db' = [db EXCEPT !.nextEvent = @ + 1]
          /\ reqs' = [reqs EXCEPT ![r].newId = db.nextEvent,
                                  ![r].pc = "insertOccurrence"]
          /\ UNCHANGED <<users, nextId, session, env, sessionOpts>>
       \/ Rollback(r, AddEventFailed)

\* trx("eventoccurrences").insert({eventid: newEvent.eventid, ...}), then
\* COMMIT and res.redirect("/events")
AddEventCommit(r) ==
    /\ reqs[r].route = "addEvent" /\ reqs[r].pc = "insertOccurrence"
    /\ \/ /\ db' = [db EXCEPT
                    !.events = @ \cup {EventRow(reqs[r].newId, reqs[r].form)},
                    !.eventoccurrences = @ \cup
                        {OccurrenceRow(db.nextOccurrence, reqs[r].newId,
                                       reqs[r].form)},
                    !.nextOccurrence = @ + 1]
          /\ reqs' = [reqs EXCEPT ![r] = Respond(reqs[r], Redirect("/events", ""))]
          /\ UNCHANGED <<users, nextId, session, env, sessionOpts>>
       \/ Rollback(r, AddEventFailed)

\* POST /editEvent/:id
EditEvent(r, s, id, f) == BeginGated(r, s, "editEvent", id, f, "updateEvent")

\* trx("events").where({ eventid }).update({...})
EditEventUpdate(r) ==
    /\ reqs[r].route = "editEvent" /\ reqs[r].pc = "updateEvent"
    /\ \/ /\ reqs' = [reqs EXCEPT ![r].pc = "updateOccurrence"]
          /\ UNCHANGED <<users, nextId, session, db, env, sessionOpts>>
       \/ Rollback(r, EditEventFailed)

\* trx("eventoccurrences").where({ eventid }).update({...}), then COMMIT
EditEventCommit(r) ==
    /\ reqs[r].route = "editEvent" /\ reqs[r].pc = "updateOccurrence"
    /\ \/ /\ db' = [db EXCEPT
                    !.events =
                        {IF e.eventid = reqs[r].id
                         THEN EventRow(e.eventid, reqs[r].form) ELSE e : e \in @},
                    !.eventoccurrences =
                        {IF o.eventid = reqs[r].id
                         THEN OccurrenceRow(o.eventoccurrenceid, o.eventid,
                                            reqs[r].form)
                         ELSE o : o \in @}]
          /\ reqs' = [reqs EXCEPT ![r] =
                    Respond(reqs[r], Redirect("/events", "Event updated."))]
          /\ UNCHANGED <<users, nextId, session, env, sessionOpts>>
       \/ Rollback(r, EditEventFailed)

\* POST /deleteEvent/:id
DeleteEvent(r, s, id) ==
    BeginGated(r, s, "deleteEvent", id, [none |-> TRUE], "deleteOccurrences")

\* trx("eventoccurrences").where({ eventid }).del()
DeleteEventOccurrences(r) ==
    /\ reqs[r].route = "deleteEvent" /\ reqs[r].pc = "deleteOccurrences"
    /\ \/ /\ reqs' = [reqs EXCEPT ![r].pc = "deleteEvent"]
          /\ UNCHANGED <<users, nextId, session, db, env, sessionOpts>>
       \/ Rollback(r, DeleteEventFailed)

\* trx("events").where({ eventid }).del(), then COMMIT
DeleteEventCommit(r) ==
    /\ reqs[r].route = "deleteEvent" /\ reqs[r].pc = "deleteEvent"
    /\ \/ /\ db' = [db EXCEPT
                    !.eventoccurrences = {o \in @ : o.eventid # reqs[r].id},
                    !.events = {e \in @ : e.eventid # reqs[r].id}]
          /\ reqs' = [reqs EXCEPT ![r] =
                    Respond(reqs[r], Redirect("/events", "Event deleted."))]
          /\ UNCHANGED <<users, nextId, session, env, sessionOpts>>
       \/ Rollback(r, DeleteEventFailed)

----------------------------------------------------------------------------
(* Specifications *)

\* authentication: login and logout
NextLogin ==
    \/ \E r \in Slots, s \in SessionIds, u \in LoginUsernames,
          p \in Plain : LoginLookup(r, s, u, p)
    \/ \E r \in Slots : LoginVerify(r)
    \/ \E r \in Slots : LoginUpdate(r)
    \/ \E r \in Slots : LoginRespond(r)
    \/ \E r \in Slots, s \in SessionIds : Logout(r, s)

SpecLogin == Init /\ [][NextLogin]_vars

\* authentication and authorization: login, logout and the gated routes
Next ==
    \/ \E r \in Slots, s \in SessionIds : Dashboard(r, s)
    \/ \E r \in Slots, s \in SessionIds, lv \in LevelArgs : RoleGated(r, s, lv)
    \/ NextLogin

Spec == Init /\ [][Next]_vars

\* self-registration, several requests in flight
InitRegister ==
    /\ users = {[id |-> 1, username |-> "alice",
                 password |-> bcryptHash(<<"p">>, SaltNames[1]), level |-> "M"],
                [id |-> 2, username |-> "bob",
                 password |-> bcryptHash(<<"q">>, SaltNames[1]), level |-> "U"]}
    /\ nextId = 3
    /\ session = [s \in 1..MaxSessions |-> NoUser]
    /\ reqs = [r \in 1..MaxRaceReqs |-> IdleReq]
    /\ InitRest

NextRegister ==
    \/ \E r \in Slots, b \in CreateBodies :
            /\ reqs[r].route = "none"        \* each slot carries one request
            /\ CreateAccount(r, b.username, b.password, b.level)
    \/ \E r \in Slots : CreateAccountHash(r)
    \/ \E r \in Slots : CreateAccountInsert(r)
    \/ \E r \in Slots : CreateAccountRespond(r)

SpecRegister == InitRegister /\ [][NextRegister]_vars

\* account administration; a session holds what a login left in it, and the
\* account of a logged-in user is hashed
InitAdmin ==
    /\ users \in InitUsers
    /\ nextId = 3
    /\ session \in [1..MaxSessions ->
            {NoUser} \cup {SessionSnapshot(row) :
                            row \in {x \in users : IsHashed(x.password)}}]
    /\ reqs = [r \in 1..MaxAdminReqs |-> IdleReq]
    /\ InitRest

NextAdmin ==
    \/ \E r \in Slots, s \in SessionIds, b \in AddUserBodies :
            AddUser(r, s, b.username, b.password, b.confirm, b.level)
    \/ \E r \in Slots : AddUserHash(r)
    \/ \E r \in Slots : AddUserInsert(r)
    \/ \E r \in Slots : AddUserRespond(r)

SpecAdmin == InitAdmin /\ [][NextAdmin]_vars

\* a session outliving changes to its account: login, logout, the manager's
\* edits and deletions, and a manager-only page
HashedUsers ==
    {[id |-> 1, username |-> "alice",
      password |-> bcryptHash(<<"p">>, SaltNames[1]), level |-> "M"],
     [id |-> 2, username |-> "bob",
      password |-> bcryptHash(<<"q">>, SaltNames[1]), level |-> "U"]}

SnapshotLogins == {[username |-> "alice", password |-> <<"p">>]}

\* forms of POST /editUser/:id that change a level or a username
SnapshotEdits ==
    {[id |-> 1, username |-> "alice", level |-> "U"],
     [id |-> 1, username |-> "bob", level |-> "M"],
     [id |-> 1, username |-> "carol", level |-> "M"]}

InitSnapshot ==
    /\ users = HashedUsers
    /\ nextId = 3
    /\ session = [s \in 1..MaxSessions |-> NoUser]
    /\ reqs = [r \in 1..MaxSnapReqs |-> IdleReq]
    /\ InitRest

NextSnapshot ==
    \/ \E r \in Slots, s \in SessionIds, b \in SnapshotLogins :
            LoginLookup(r, s, b.username, b.password)
    \/ \E r \in Slots : LoginVerify(r)
    \/ \E r \in Slots : LoginRespond(r)
    \/ \E r \in Slots, s \in SessionIds : Logout(r, s)
    \/ \E r \in Slots, s \in SessionIds, b \in SnapshotEdits :
            EditUser(r, s, b.id, b.username, <<>>, <<>>, b.level)
    \/ \E r \in Slots : EditUserUpdate(r)
    \/ \E r \in Slots : EditUserRefetch(r)
    \/ \E r \in Slots, s \in SessionIds : DeleteUser(r, s, 1)
    \/ \E r \in Slots : DeleteUserDone(r)
    \/ \E r \in Slots, s \in SessionIds : RoleGated(r, s, ManagerOnly)
    \/ \E r \in Slots, s \in SessionIds : Dashboard(r, s)

SpecSnapshot == InitSnapshot /\ [][NextSnapshot]_vars

ManagerRows(tbl) == {row \in tbl : row.level = "M"}

\* account editing by forms with and without a password, and account
\* creation by forms that fail validation
EditForms ==
    {[id |-> 2, username |-> "", password |-> <<>>, confirm |-> <<>>,
      level |-> "U"],
     [id |-> 2, username |-> "bob", password |-> <<>>, confirm |-> <<>>,
      level |-> "M"],
     [id |-> 2, username |-> "carol", password |-> <<" ">>, confirm |-> <<" ">>,
      level |-> "U"],
     [id |-> 2, username |-> "bob", password |-> <<"n">>, confirm |-> <<"q">>,
      level |-> "M"],
     [id |-> 2, username |-> "bob", password |-> <<"n">>, confirm |-> <<"n">>,
      level |-> "U"]}

EditAddUserBodies ==
    {[username |-> "", password |-> <<"p">>, confirm |-> <<"p">>, level |-> "U"],
     [username |-> "carol", password |-> <<>>, confirm |-> <<>>, level |-> "U"],
     [username |-> "carol", password |-> <<"p">>, confirm |-> <<"q">>,
      level |-> "U"],
     [username |-> "carol", password |-> <<"p">>, confirm |-> <<"p">>,
      level |-> "U"]}

InitEdit ==
    /\ users = HashedUsers
    /\ nextId = 3
    /\ session \in [1..MaxSessions ->
            {NoUser} \cup {SessionSnapshot(row) : row \in ManagerRows(users)}]
    /\ reqs = [r \in 1..MaxEditReqs |-> IdleReq]
    /\ InitRest

NextEdit ==
    \/ \E r \in Slots, s \in SessionIds, f \in EditForms :
            EditUser(r, s, f.id, f.username, f.password, f.confirm, f.level)
    \/ \E r \in Slots : EditUserLoad(r)
    \/ \E r \in Slots : EditUserHash(r)
    \/ \E r \in Slots : EditUserUpdate(r)
    \/ \E r \in Slots : EditUserRefetch(r)
    \/ \E r \in Slots, s \in SessionIds, b \in EditAddUserBodies :
            AddUser(r, s, b.username, b.password, b.confirm, b.level)
    \/ \E r \in Slots : AddUserHash(r)
    \/ \E r \in Slots : AddUserInsert(r)
    \/ \E r \in Slots : AddUserRespond(r)

SpecEdit == InitEdit /\ [][NextEdit]_vars

\* the list routes under page and sort parameters of every kind
PageParams ==
    {Missing} \cup {Param(t) : t \in {<<"a">>, <<"0">>, <<"-", "3">>,
                                      <<"1", "0", "x">>}}

SortParams ==
    {MissingName} \cup {Param(k) : k \in {"", "username", "level", "donor", "date",
                                      "amount", "bogus", "constructor",
                                      "__proto__"}}

PageQueries == {[NoQuery EXCEPT !.page = p] : p \in PageParams}

SortQueries ==
    {[NoQuery EXCEPT !.sortBy = k] : k \in SortParams}
        \cup {[NoQuery EXCEPT !.sortBy = Param("level"),
                              !.sortOrder = Param("desc")]}

Counts == {NumberToString(n) : n \in {0, 51}}

InitLists ==
    /\ users = HashedUsers
    /\ nextId = 3
    /\ session \in [1..MaxSessions ->
            {NoUser} \cup {SessionSnapshot(row) : row \in ManagerRows(users)}]
    /\ reqs = [r \in 1..MaxListReqs |-> IdleReq]
    /\ InitRest

\* the routes only read, so each slot serves one request
NextLists ==
    \/ \E r \in Slots, s \in SessionIds, q \in SortQueries :
            reqs[r].route = "none" /\ ListUsers(r, s, q)
    \/ \E r \in Slots, s \in SessionIds, q \in PageQueries, c \in Counts :
            reqs[r].route = "none" /\ ListParticipants(r, s, q, c)
    \/ \E r \in Slots, s \in SessionIds, q \in PageQueries, c \in Counts :
            reqs[r].route = "none" /\ ListSurveys(r, s, q, c)
    \/ \E r \in Slots, s \in SessionIds, q \in PageQueries, c \in Counts :
            reqs[r].route = "none" /\ PastEvents(r, s, q, c)
    \/ \E r \in Slots, s \in SessionIds, q \in PageQueries \cup SortQueries,
             c \in Counts :
            reqs[r].route = "none" /\ ListDonations(r, s, q, c)

SpecLists == InitLists /\ [][NextLists]_vars

\* the event writers on a table that holds one event
EventForms == {[name |-> "Gala", capacity |-> <<"3", "0">>, location |-> "Hall"]}

EventEdits == {[name |-> "Fair", capacity |-> <<"4", "0">>, location |-> "Park"]}

\* :id of the edit and delete requests: the stored event and the next one
EventTargets == {1, 2}

OneEventDb ==
    [EmptyDb EXCEPT
        !.events = {EventRow(1, [name |-> "Camp", capacity |-> <<"2", "0">>])},
        !.eventoccurrences =
            {OccurrenceRow(1, 1, [location |-> "Lake", capacity |-> <<"2", "0">>])},
        !.nextEvent = 2, !.nextOccurrence = 2]

InitEvents ==
    /\ users = HashedUsers
    /\ nextId = 3
    /\ session \in [1..MaxSessions ->
            {NoUser} \cup {SessionSnapshot(row) : row \in ManagerRows(users)}]
    /\ reqs = [r \in 1..MaxEventReqs |-> IdleReq]
    /\ db = OneEventDb
    /\ env = DevEnv
    /\ sessionOpts = sessionMiddleware(env)

NextEvents ==
    \/ \E r \in Slots, s \in SessionIds, f \in EventForms : AddEvent(r, s, f)
    \/ \E r \in Slots : AddEventInsert(r)
    \/ \E r \in Slots : AddEventCommit(r)
    \/ \E r \in Slots, s \in SessionIds, id \in EventTargets, f \in EventEdits :
            EditEvent(r, s, id, f)
    \/ \E r \in Slots : EditEventUpdate(r)
    \/ \E r \in Slots : EditEventCommit(r)
    \/ \E r \in Slots, s \in SessionIds, id \in EventTargets :
            DeleteEvent(r, s, id)
    \/ \E r \in Slots : DeleteEventOccurrences(r)
    \/ \E r \in Slots : DeleteEventCommit(r)

SpecEvents == InitEvents /\ [][NextEvents]_vars

\* the legacy-password upgrade racing with another login and with a manager
\* who sets a new password: bob's password is legacy plain text, alice is a
\* manager, and each slot serves one request
UpgradeUsers ==
    {[id |-> 1, username |-> "alice",
      password |-> bcryptHash(<<"p">>, SaltNames[1]), level |-> "M"],
     [id |-> 2, username |-> "bob", password |-> <<"q">>, level |-> "U"]}

UpgradeSessions == {1, 2}

InitUpgrade ==
    /\ users = UpgradeUsers
    /\ nextId = 3
    /\ session \in {[s \in UpgradeSessions |-> NoUser],
                    [s \in UpgradeSessions |->
                        IF s = 1
                        THEN SessionSnapshot(FindByUsername(users, "alice"))
                        ELSE NoUser]}
    /\ reqs = [r \in 1..MaxUpgradeReqs |-> IdleReq]
    /\ InitRest

NextUpgrade ==
    \/ \E r \in Slots, s \in UpgradeSessions :
            reqs[r].route = "none" /\ LoginLookup(r, s, "bob", <<"q">>)
    \/ \E r \in Slots : LoginVerify(r)
    \/ \E r \in Slots : LoginUpdate(r)
    \/ \E r \in Slots : LoginRespond(r)
    \/ \E r \in Slots, s \in UpgradeSessions :
            /\ reqs[r].route = "none"
            /\ EditUser(r, s, 2, "bob", <<"n">>, <<"n">>, "U")
    \/ \E r \in Slots : EditUserHash(r)
    \/ \E r \in Slots : EditUserUpdate(r)
    \/ \E r \in Slots : EditUserRefetch(r)

SpecUpgrade == InitUpgrade /\ [][NextUpgrade]_vars

\* every route that writes a password, on a table with and without a legacy
\* plain-text password
InitPasswords ==
    /\ users \in {UpgradeUsers, HashedUsers}
    /\ nextId = 3
    /\ session = [s \in 1..MaxSessions |->
                    SessionSnapshot(FindByUsername(users, "alice"))]
    /\ reqs = [r \in 1..MaxPasswordReqs |-> IdleReq]
    /\ InitRest

NextPasswords ==
    \/ \E r \in Slots : CreateAccount(r, "carol", <<"p">>, "")
    \/ \E r \in Slots : CreateAccountHash(r)
    \/ \E r \in Slots : CreateAccountInsert(r)
    \/ \E r \in Slots : CreateAccountRespond(r)
    \/ \E r \in Slots, s \in SessionIds :
            AddUser(r, s, "carol", <<"p">>, <<"p">>, "U")
    \/ \E r \in Slots : AddUserHash(r)
    \/ \E r \in Slots : AddUserInsert(r)
    \/ \E r \in Slots : AddUserRespond(r)
    \/ \E r \in Slots, s \in SessionIds, p \in {<<>>, <<"n">>} :
            EditUser(r, s, 2, "bob", p, p, "U")
    \/ \E r \in Slots : EditUserHash(r)
    \/ \E r \in Slots : EditUserUpdate(r)
    \/ \E r \in Slots : EditUserRefetch(r)
    \/ \E r \in Slots, s \in SessionIds : LoginLookup(r, s, "bob", <<"q">>)
    \/ \E r \in Slots : LoginVerify(r)
    \/ \E r \in Slots : LoginUpdate(r)
    \/ \E r \in Slots : LoginRespond(r)

SpecPasswords == InitPasswords /\ [][NextPasswords]_vars

\* the life of a session: sessions as logins left them, then a few requests
\* that destroy them or pass the gate
InitSession ==
    /\ users = HashedUsers
    /\ nextId = 3
    /\ session \in [1..MaxSessions ->
            {NoUser} \cup {SessionSnapshot(row) : row \in users}]
    /\ reqs = [r \in 1..MaxSessionReqs |-> IdleReq]
    /\ InitRest

NextSession ==
    \/ \E r \in Slots, s \in SessionIds :
            /\ reqs[r].route = "none"        \* each slot carries one request
            /\ Logout(r, s)
    \/ \E r \in Slots, s \in SessionIds :
            /\ reqs[r].route = "none"
            /\ Dashboard(r, s)
    \/ \E r \in Slots, s \in SessionIds :
            /\ reqs[r].route = "none"
            /\ RoleGated(r, s, ManagerOnly)

SpecSession == InitSession /\ [][NextSession]_vars

\* the same requests with the process started in any environment
InitConfig ==
    /\ users = HashedUsers
    /\ nextId = 3
    /\ session \in [1..MaxSessions ->
            {NoUser} \cup {SessionSnapshot(row) : row \in users}]
    /\ reqs = [r \in 1..MaxSessionReqs |-> IdleReq]
    /\ db = EmptyDb
    /\ env \in Envs
    /\ sessionOpts = sessionMiddleware(env)

SpecConfig == InitConfig /\ [][NextSession]_vars

\* the record routes: the donations router and a participants route, on
\* sessions as logins left them
DonationForms ==
    {[firstname |-> "Dee", lastname |-> "Doe", donationdate |-> "d2",
      donationamount |-> 25]}

DonationEdits == {[donationdate |-> "d3", donationamount |-> 5]}

InitRecords ==
    /\ users = HashedUsers
    /\ nextId = 3
    /\ session \in [1..MaxSessions ->
            {NoUser} \cup {SessionSnapshot(row) : row \in users}]
    /\ reqs = [r \in 1..MaxRecordReqs |-> IdleReq]
    /\ db = OneDonationDb
    /\ env = DevEnv
    /\ sessionOpts = sessionMiddleware(env)

NextRecords ==
    \/ \E r \in Slots, s \in SessionIds :
            ListDonations(r, s, NoQuery, NumberToString(Cardinality(db.donations)))
    \/ \E r \in Slots, s \in SessionIds : DeleteDonation(r, s, 1)
    \/ \E r \in Slots : DeleteDonationDone(r)
    \/ \E r \in Slots, s \in SessionIds, f \in DonationEdits :
            EditDonation(r, s, 1, f)
    \/ \E r \in Slots : EditDonationDone(r)
    \/ \E r \in Slots, s \in SessionIds, f \in DonationForms :
            AddDonation(r, s, f)
    \/ \E r \in Slots : AddDonationParticipant(r)
    \/ \E r \in Slots : AddDonationInsert(r)
    \/ \E r \in Slots, s \in SessionIds : DeleteParticipant(r, s, 1)
    \/ \E r \in Slots : DeleteParticipantDone(r)

SpecRecords == InitRecords /\ [][NextRecords]_vars

\* surveys: forms with whole means, fractional means, and scores that are
\* not integers
SurveyForm(sat, use, ins, rec) ==
    [participantid |-> 1, eventoccurrenceid |-> 1,
     surveysatisfactionscore |-> sat, surveyusefulnessscore |-> use,
     surveyinstructorscore |-> ins, surveyrecommendationscore |-> rec,
     surveycomments |-> ""]

SurveyForms ==
    {SurveyForm(<<"5">>, <<"4">>, <<"4">>, <<"4">>),
     SurveyForm(<<"1", "0">>, <<"0">>, <<"-", "1">>, <<"5">>),
     SurveyForm(<<"5">>, <<"5">>, <<>>, <<"5", "x">>)}

SurveyEdits ==
    {SurveyForm(<<"1">>, <<"2">>, <<"3">>, <<"3">>),
     SurveyForm(<<"5">>, <<"5">>, <<"5">>, <<"x">>)}

InitSurveys ==
    /\ users = HashedUsers
    /\ nextId = 3
    /\ session \in [1..MaxSessions ->
            {NoUser} \cup {SessionSnapshot(row) : row \in users}]
    /\ reqs = [r \in 1..MaxSurveyReqs |-> IdleReq]
    /\ InitRest

NextSurveys ==
    \/ \E r \in Slots, s \in SessionIds, f \in SurveyForms : AddSurvey(r, s, f)
    \/ \E r \in Slots : AddSurveyInsert(r)
    \/ \E r \in Slots : AddSurveyRefetch(r)
    \/ \E r \in Slots, s \in SessionIds, f \in SurveyEdits :
            EditSurvey(r, s, 1, f)
    \/ \E r \in Slots : EditSurveyUpdate(r)

SpecSurveys == InitSurveys /\ [][NextSurveys]_vars

----------------------------------------------------------------------------
(* Properties of the authorization gate *)

Stepped(r) == reqs'[r] # reqs[r]

AllowedSet(lv) == IF lv.isArray THEN lv.items ELSE {lv.item}

ToLogin == [kind |-> "redirect", status |-> 302, target |-> "/login",
            message |-> ""]

\* C1: a request through requireRole with no session user is redirected to
\* /login, never answered 403, and its controller does not run, whatever the
\* allowed set is.
C1_NoSessionRedirects ==
    \A r \in Slots :
        (reqs[r].gate = "role" /\ reqs[r].sessUser = NoUser)
        => /\ reqs[r].resp = ToLogin
           /\ reqs[r].resp.status # 403
           /\ ~reqs[r].ran

C1_Witness ==
    \E r \in Slots :
        /\ reqs[r].gate = "role" /\ reqs[r].sessUser = NoUser
        /\ reqs[r].levels = ManagerOnly
        /\ reqs[r].resp = ToLogin

\* C2: a request through requireRole(allowed) whose session user has a level
\* outside allowed is answered 403 with the 'not authorized' message, which
\* is not a redirect and not the login page's generic error, and its
\* controller does not run.
C2_WrongRoleForbidden ==
    \A r \in Slots :
        (/\ reqs[r].gate = "role"
         /\ reqs[r].sessUser # NoUser
         /\ reqs[r].sessUser.level \notin AllowedSet(reqs[r].levels))
        => /\ reqs[r].resp.status = 403
           /\ reqs[r].resp.kind = "render"
           /\ reqs[r].resp.message = "You are not authorized to view that page."
           /\ reqs[r].resp.message # "Invalid username or password."
           /\ reqs[r].resp.target # "/login"
           /\ ~reqs[r].ran

C2_Witness ==
    \E r \in Slots :
        /\ reqs[r].gate = "role"
        /\ reqs[r].sessUser.level = "U"
        /\ reqs[r].levels = ManagerOnly
        /\ reqs[r].resp.status = 403

\* C3: requireAuth redirects to /login when the session has no user;
\* otherwise the controller runs and sees the session user as it is, for
\* every level, and the session is left as it was.
C3_Outcome ==
    \A r \in Slots :
        reqs[r].gate = "auth"
        => IF reqs[r].sessUser = NoUser
           THEN reqs[r].resp = ToLogin /\ ~reqs[r].ran
           ELSE /\ reqs[r].ran
                /\ reqs[r].ctlUser = reqs[r].sessUser
                /\ reqs[r].resp.kind = "render"
                /\ reqs[r].resp.status = 200

C3_Step ==
    \A r \in Slots :
        (Stepped(r) /\ reqs'[r].gate = "auth")
        => /\ session' = session
           /\ reqs'[r].sessUser = session[reqs'[r].sid]

C3_RequireAuth == []C3_Outcome /\ [][C3_Step]_vars

C3_Witness ==
    \E r \in Slots :
        /\ reqs[r].gate = "auth"
        /\ reqs[r].sessUser.level = "U"
        /\ reqs[r].ran
        /\ reqs[r].ctlUser = reqs[r].sessUser

\* C4: a request through requireAuth or requireRole ends in exactly one of
\* login redirect, 403 forbidden and hand-off to the controller; which one
\* is decided by whether a session user is present and whether its level is
\* allowed; the gate changes neither the session store nor the account table.
IsLoginRedirect(q) == q.resp = ToLogin /\ ~q.ran
IsForbidden(q) == q.resp.status = 403 /\ q.resp.kind = "render" /\ ~q.ran
IsHandOff(q) == q.ran /\ q.resp.status # 403 /\ q.resp # ToLogin

C4_Outcome ==
    \A r \in Slots :
        reqs[r].route \in {"dashboard", "gated"}
        => LET q == reqs[r]
               present == q.sessUser # NoUser
               member == q.gate = "auth"
                         \/ q.sessUser.level \in AllowedSet(q.levels)
           IN  /\ IsLoginRedirect(q) <=> ~present
               /\ IsForbidden(q) <=> (present /\ ~member)
               /\ IsHandOff(q) <=> (present /\ member)

C4_Step ==
    \A r \in Slots :
        (Stepped(r) /\ reqs'[r].route \in {"dashboard", "gated"})
        => /\ session' = session
           /\ users' = users
           /\ nextId' = nextId

C4_GateTotalAndPure == []C4_Outcome /\ [][C4_Step]_vars

C4_Witness ==
    \E r \in Slots :
        /\ reqs[r].route = "gated"
        /\ reqs[r].sessUser.level = "M"
        /\ "M" \notin AllowedSet(reqs[r].levels)
        /\ IsForbidden(reqs[r])

----------------------------------------------------------------------------
(* Properties of POST /login *)

InvalidCredentials ==
    [kind |-> "redirect", status |-> 302, target |-> "/login",
     message |-> "Invalid username or password."]

ToLanding == [kind |-> "redirect", status |-> 302, target |-> "/landing",
              message |-> ""]

Legacy(stored) == ~(Len(stored) >= 1 /\ stored[1] = "$2")

\* the submitted password is the account's password
RightPassword(q) ==
    IF Legacy(q.row.password)
    THEN q.row.password = q.password
    ELSE bcryptCompare(q.password, q.row.password)

Verifying(r) ==
    reqs[r].route = "login" /\ reqs[r].pc = "verify" /\ Stepped(r)

\* C5: when the lookup finds no account, and when it finds one but the
\* password is wrong, the handler (if the comparison does not throw) sends
\* the same response, a redirect to /login with the flash message 'Invalid
\* username or password.', and sets no session user.
C5_Step ==
    \A r \in Slots :
        (Verifying(r) /\ reqs'[r].err = "none"
         /\ (reqs[r].row = NoRow \/ ~RightPassword(reqs[r])))
        => /\ reqs'[r].pc = "done"
           /\ reqs'[r].resp = InvalidCredentials
           /\ session' = session
           /\ users' = users

C5_SameFailureResponse == [][C5_Step]_vars

C5_Witness ==
    \E r \in Slots :
        /\ reqs[r].route = "login" /\ reqs[r].pc = "done"
        /\ reqs[r].username = "alice" /\ reqs[r].password = <<"q">>
        /\ reqs[r].resp = InvalidCredentials
        /\ session[reqs[r].sid] = NoUser

\* C6: a login with the right password for an account stored as legacy plain
\* text goes on to the upgrade; when the upgrade has not thrown, the stored
\* password of that account is a hash (starts with "$2", differs from the
\* plain text) in the state from which the success response is sent; and a
\* stored hash is never replaced by plain text, so later logins take the
\* hashed-comparison branch.
C6_Stored ==
    \A r \in Slots :
        (reqs[r].route = "login" /\ reqs[r].pc = "respond"
         /\ reqs[r].err = "none")
        => /\ Legacy(reqs[r].row.password)
           /\ \A a \in users :
                a.id = reqs[r].row.id
                => /\ ~Legacy(a.password)
                   /\ a.password # reqs[r].password

C6_Step ==
    /\ \A r \in Slots :
        (Verifying(r) /\ reqs[r].row # NoRow
         /\ Legacy(reqs[r].row.password) /\ RightPassword(reqs[r]))
        => \/ reqs'[r].pc = "respond" /\ reqs'[r].err # "none"
           \/ /\ reqs'[r].pc = "update"
              /\ ~Legacy(reqs'[r].hash)
              /\ bcryptCompare(reqs[r].password, reqs'[r].hash)
    /\ \A r \in Slots :
        (reqs[r].route = "login" /\ reqs[r].pc = "update" /\ Stepped(r)
         /\ reqs'[r].err = "none")
        => \A a \in users' : a.id = reqs[r].row.id => a.password = reqs[r].hash
    /\ \A r \in Slots :
        (reqs[r].route = "login" /\ reqs[r].pc = "respond" /\ Stepped(r)
         /\ reqs[r].err = "none")
        => /\ reqs'[r].resp = ToLanding
           /\ session'[reqs[r].sid].id = reqs[r].row.id
    /\ \A a \in users : \A b \in users' :
        (a.id = b.id /\ ~Legacy(a.password)) => ~Legacy(b.password)

C6_LegacyUpgraded == []C6_Stored /\ [][C6_Step]_vars

C6_Witness ==
    \E r \in Slots :
        /\ reqs[r].route = "login" /\ reqs[r].pc = "respond"
        /\ reqs[r].err = "none"
        /\ reqs[r].row.password = <<"p">>
        /\ \E a \in users : a.id = reqs[r].row.id /\ ~Legacy(a.password)

\* C7: a login with the right password for an account whose stored password
\* is hashed succeeds (if the comparison does not throw), and no step of the
\* request writes the account table.
C7_Step ==
    /\ \A r \in Slots :
        (Verifying(r) /\ reqs[r].row # NoRow
         /\ ~Legacy(reqs[r].row.password) /\ RightPassword(reqs[r])
         /\ reqs'[r].err = "none")
        => /\ reqs'[r].pc = "done"
           /\ reqs'[r].resp = ToLanding
           /\ session'[reqs[r].sid] =
                [id |-> reqs[r].row.id, username |-> reqs[r].row.username,
                 level |-> reqs[r].row.level]
    /\ \A r \in Slots :
        (Stepped(r) /\ reqs[r].route = "login" /\ reqs[r].pc # "done"
         /\ reqs[r].row # NoRow /\ ~Legacy(reqs[r].row.password))
        => users' = users /\ nextId' = nextId
    /\ \A r \in Slots :
        (Stepped(r) /\ reqs'[r].route = "login" /\ reqs'[r].pc = "verify")
        => users' = users /\ nextId' = nextId

C7_HashedUntouched == [][C7_Step]_vars

C7_Witness ==
    \E r \in Slots :
        /\ reqs[r].route = "login" /\ reqs[r].pc = "done"
        /\ reqs[r].username = "bob" /\ reqs[r].password = <<"q">>
        /\ reqs[r].resp = ToLanding
        /\ session[reqs[r].sid].username = "bob"
        /\ \E a \in users : a.username = "bob" /\ ~Legacy(a.password)

\* C8: when the upgrade of a legacy password fails (the re-hash or the UPDATE
\* throws), the login still succeeds: the response is the redirect to
\* /landing.
C8_UpgradeBestEffort ==
    \A r \in Slots :
        (reqs[r].route = "login" /\ reqs[r].pc = "done"
         /\ reqs[r].err \in {"hash", "update"})
        => reqs[r].resp = ToLanding

----------------------------------------------------------------------------
(* Properties of account creation *)

TakenMessage == "Username is already taken."
SaveFailedMessage == "Unable to save user. Please try again."

\* create-account requests for username u that passed the validation
Creating(u) ==
    {r \in Slots : /\ reqs[r].route = "create-account"
                   /\ reqs[r].username = u
                   /\ reqs[r].password # <<>>}

\* those that ended without a failure of bcrypt or of the connection
Settled(u) ==
    {r \in Creating(u) : reqs[r].pc = "done" /\ reqs[r].err \in {"none", "23505"}}

\* C9: when two (or more) create-account requests for the same free username
\* run in any interleaving and none hits a hashing or connection failure,
\* exactly one account with that username exists afterwards, exactly one
\* request is redirected to /login and every other one is told 'Username is
\* already taken.'; usernames are unique at all times.
C9_OneWinner ==
    /\ \A a \in users : \A b \in users : a.username = b.username => a = b
    /\ \A u \in {"carol"} :
        (/\ \A r \in Creating(u) : reqs[r].pc = "done"
         /\ Cardinality(Settled(u)) >= 2)
        => /\ Cardinality({a \in users : a.username = u}) = 1
           /\ Cardinality({r \in Settled(u) :
                            reqs[r].resp = Redirect("/login", "")}) = 1
           /\ \A r \in Settled(u) :
                \/ reqs[r].resp = Redirect("/login", "")
                \/ /\ reqs[r].resp.target = "/create-account"
                   /\ reqs[r].resp.message = TakenMessage

C9_Witness ==
    \E r1 \in Slots : \E r2 \in Slots :
        /\ r1 # r2
        /\ r1 \in Settled("carol") /\ r2 \in Settled("carol")
        /\ reqs[r1].password # reqs[r2].password
        /\ reqs[r1].resp = Redirect("/login", "")
        /\ reqs[r2].resp.message = TakenMessage
        /\ \E a \in users : a.username = "carol"
                            /\ bcryptCompare(reqs[r1].password, a.password)

\* C10: on both paths that create accounts, a unique-constraint violation on
\* username is answered with a duplicate-username message that differs from
\* the generic save-failure message.
C10_DuplicateDistinct ==
    \A r \in Slots :
        (/\ reqs[r].route \in {"create-account", "addUser"}
         /\ reqs[r].pc = "done"
         /\ reqs[r].err = "23505")
        => reqs[r].resp.message # SaveFailedMessage

----------------------------------------------------------------------------
(* Properties of the session *)

ToLandingPage == [kind |-> "redirect", status |-> 302, target |-> "/landing",
                  message |-> ""]

\* the account whose id the session carries no longer exists, or no longer
\* has the session's username and level
Stale(s) ==
    /\ session[s] # NoUser
    /\ ~\E a \in users : SessionSnapshot(a) = session[s]

C11_Step ==
    /\ \A r \in Slots :
          (Stepped(r) /\ reqs'[r].route \in {"editUser", "deleteUser"})
          => session' = session
    /\ \A s \in SessionIds :
          session'[s] # session[s]
          => \E r \in Slots :
                /\ reqs'[r].sid = s /\ reqs'[r].pc = "done"
                /\ \/ /\ reqs'[r].route = "logout"
                      /\ session'[s] = NoUser
                   \/ /\ Stepped(r)
                      /\ reqs'[r].route = "login"
                      /\ reqs'[r].resp = ToLandingPage
                      /\ session'[s] = SessionSnapshot(reqs[r].row)
    /\ \A r \in Slots :
          (Stepped(r) /\ reqs'[r].route = "gated")
          => (reqs'[r].ran
              <=> /\ session[reqs'[r].sid] # NoUser
                  /\ session[reqs'[r].sid].level \in AllowedSet(reqs'[r].levels))

\* C11: the session user is a snapshot taken at login.  No step of an
\* editUser or deleteUser request changes any session; a session changes only
\* when a login succeeds on it (to the row that login read) or a logout
\* clears it; and a requireRole route decides on the level held in the
\* session, whatever the account table holds by then.
C11_SessionIsSnapshot == [][C11_Step]_vars

\* a manager-only page served to a session whose account has since been
\* demoted, renamed or deleted
C11_Witness ==
    \E r \in Slots :
        /\ reqs[r].route = "gated" /\ reqs[r].ran
        /\ reqs[r].levels = ManagerOnly
        /\ Stale(reqs[r].sid)
        /\ reqs[r].ctlUser = session[reqs[r].sid]
        /\ ~\E a \in users : a.id = reqs[r].ctlUser.id /\ a.level = "M"

C12_Step ==
    \A r \in Slots :
        (Stepped(r) /\ reqs'[r].route = "logout")
        => /\ reqs'[r].pc = "done"
           /\ reqs'[r].err = "none"
           /\ reqs'[r].resp = ToLandingPage
           /\ session'[reqs'[r].sid] = NoUser
           /\ \A s \in SessionIds \ {reqs'[r].sid} : session'[s] = session[s]

\* C12: destroying a session is idempotent.  GET /logout answers with the
\* redirect to /landing and no error, and leaves no user in the session,
\* whether the session held a user, was already destroyed, or never had one.
C12_LogoutIdempotent == [][C12_Step]_vars

\* two logouts on the same session, both answered with the same redirect
C12_Witness ==
    \E r1 \in Slots : \E r2 \in Slots :
        /\ r1 # r2
        /\ reqs[r1].route = "logout" /\ reqs[r2].route = "logout"
        /\ reqs[r1].sid = reqs[r2].sid
        /\ reqs[r1].resp = ToLandingPage /\ reqs[r2].resp = ToLandingPage
        /\ session[reqs[r1].sid] = NoUser

C13_Step ==
    /\ \A s \in SessionIds :
          (session[s] = NoUser /\ session'[s] # NoUser)
          => \E r \in Slots :
                /\ Stepped(r) /\ reqs'[r].route = "login"
                /\ reqs'[r].sid = s /\ reqs'[r].resp = ToLandingPage
    /\ \A s \in SessionIds :
          (session[s] # NoUser /\ session'[s] = NoUser)
          => \E r \in Slots :
                reqs'[r].route = "logout" /\ reqs'[r].sid = s
    /\ \A r \in Slots :
          (Stepped(r) /\ reqs'[r].route = "logout")
          => session'[reqs'[r].sid] = NoUser
    /\ \A r \in Slots :
          (Stepped(r) /\ reqs'[r].route \in {"dashboard", "gated"})
          => /\ session[reqs'[r].sid] = NoUser
                => (reqs'[r].resp = ToLogin /\ ~reqs'[r].ran)
             /\ (session[reqs'[r].sid] # NoUser /\ reqs'[r].gate = "auth")
                => reqs'[r].ran

\* C13: a session holds a user only between a successful login and the next
\* logout.  No session holds a user at the start; a user enters a session
\* only when a login on it succeeds and leaves it only at a logout, which
\* always empties it; while the session is empty every request through
\* requireAuth or requireRole is redirected to /login, and while it holds a
\* user requireAuth passes.
C13_SessionLifetime ==
    /\ \A s \in SessionIds : session[s] = NoUser
    /\ [][C13_Step]_vars

\* the dashboard served on a session that a login filled
C13_Witness ==
    \E r \in Slots :
        /\ reqs[r].route = "dashboard" /\ reqs[r].ran
        /\ reqs[r].ctlUser # NoUser
        /\ session[reqs[r].sid] = reqs[r].ctlUser
        /\ reqs[r].resp.status = 200

----------------------------------------------------------------------------
(* Properties of the login handler's failures and effects *)

C14_Step ==
    \A r \in Slots :
        (/\ Stepped(r)
         /\ reqs[r].route = "login" /\ reqs[r].pc = "respond"
         /\ reqs[r].err # "none")
        => /\ reqs'[r].pc = "done"
           /\ reqs'[r].resp = [kind |-> "send", status |-> 200, target |-> "",
                               message |-> "Login error"]
           /\ reqs'[r].logged
           /\ session' = session
           /\ users' = users

\* C14: when an operation awaited by POST /login throws (the account lookup,
\* the comparison, the re-hash or its UPDATE), the handler answers with the
\* bare text "Login error", logs the error, and leaves every session as it
\* was.
C14_LoginErrorGeneric == [][C14_Step]_vars

\* the lookup threw, and the answer was the generic one
C14_Witness ==
    \E r \in Slots :
        /\ reqs[r].route = "login" /\ reqs[r].pc = "done"
        /\ reqs[r].err = "lookup" /\ reqs[r].logged
        /\ reqs[r].resp.message = "Login error"
        /\ session[reqs[r].sid] = NoUser

\* C17: the session cookie is httpOnly with sameSite "lax", it is secure
\* exactly when NODE_ENV is "production", and sessions that hold nothing are
\* not saved (saveUninitialized is false), in every environment the process
\* may start in.
C17_CookieAttributes ==
    /\ sessionOpts.cookie.httpOnly = TRUE
    /\ sessionOpts.cookie.sameSite = "lax"
    /\ sessionOpts.cookie.secure = TRUE <=> env.NODE_ENV = "production"
    /\ sessionOpts.saveUninitialized = FALSE

\* a production process that has served a request on a session with a user
C17_Witness ==
    /\ env.NODE_ENV = "production"
    /\ sessionOpts.cookie.secure
    /\ \E r \in Slots : reqs[r].route = "dashboard" /\ reqs[r].ran

\* C16: after any sequence of account-creating and account-editing requests
\* every account's level is one of the role codes "M" and "U".
C16_LevelsEnumerated == \A a \in users : a.level \in RoleCodes

C19_Step ==
    \A r \in Slots :
        (Stepped(r) /\ reqs'[r].route = "login")
        => /\ (reqs'[r].pc = "done" /\ reqs'[r].resp = ToLandingPage)
              => \E a \in users' :
                    /\ a.username = reqs'[r].username
                    /\ session'[reqs'[r].sid]
                         = [id |-> a.id, username |-> a.username,
                            level |-> a.level]
           /\ (reqs'[r].pc = "done" /\ reqs'[r].resp # ToLandingPage)
              => /\ session' = session
                 /\ users' = users
                 /\ reqs[r].pc = "respond" => reqs[r].err # "none"
           /\ users' # users
              => reqs'[r].pc = "respond" /\ reqs'[r].err = "none"
           /\ (reqs'[r].pc = "done" /\ reqs'[r].resp = ToLandingPage)
              \/ session' = session

\* C19: a login that succeeds puts exactly the id, username and level of the
\* account with the submitted username in the session and redirects to
\* /landing.  A login that fails leaves every session as it was and has
\* written nothing: the only write of the handler is followed by success.
C19_LoginEffects == [][C19_Step]_vars

\* bob logged in; the session holds bob's id, username and level
C19_Witness ==
    \E r \in Slots :
        /\ reqs[r].route = "login" /\ reqs[r].pc = "done"
        /\ reqs[r].username = "bob" /\ reqs[r].resp = ToLandingPage
        /\ session[reqs[r].sid] = [id |-> 2, username |-> "bob", level |-> "U"]

C20_Created ==
    \A a \in users :
        a.id >= 3
        => /\ a.level = "U"
           /\ Len(a.password) >= 2 /\ a.password[1] = "$2"
           /\ \E r \in Slots :
                 /\ reqs[r].route = "create-account"
                 /\ reqs[r].username = a.username
                 /\ a.password # reqs[r].password
                 /\ a.password = <<"$2", a.password[2]>> \o reqs[r].password

C20_Step ==
    \A r \in Slots :
        (/\ Stepped(r) /\ reqs'[r].route = "create-account"
         /\ (reqs'[r].username = "" \/ reqs'[r].password = <<>>))
        => /\ reqs'[r].pc = "done"
           /\ reqs'[r].resp.status = 400
           /\ reqs'[r].resp.kind = "render"
           /\ users' = users /\ nextId' = nextId

\* C20: every account that POST /create-account inserts has level "U",
\* whatever level the body carries, and a bcrypt hash of the submitted
\* password in place of the password; a request without username or
\* password is answered 400 and inserts nothing.
C20_CreateAccount == []C20_Created /\ [][C20_Step]_vars

\* a body with level "M" created carol as a "U" account with a hashed
\* password
C20_Witness ==
    \E r \in Slots :
        /\ reqs[r].route = "create-account" /\ reqs[r].pc = "done"
        /\ reqs[r].form.level = "M"
        /\ reqs[r].resp = [kind |-> "redirect", status |-> 302,
                            target |-> "/login", message |-> ""]
        /\ \E a \in users :
              /\ a.username = reqs[r].username /\ a.level = "U"
              /\ a.password = <<"$2", a.password[2]>> \o reqs[r].password

----------------------------------------------------------------------------
(* Properties of the record routes *)

RecordRoutes ==
    {"donations", "deleteDonation", "editDonation", "addDonation",
     "deleteParticipant"}

\* C15: every list, add, edit and delete route of the record tables is
\* gated: a request that arrives with no session user is redirected to
\* /login and its controller never runs, so it reads and writes nothing.
C15_RecordRoutesGated ==
    \A r \in Slots :
        (reqs[r].route \in RecordRoutes /\ reqs[r].sessUser = NoUser)
        => /\ ~reqs[r].ran
           /\ reqs[r].pc = "done"
           /\ reqs[r].resp = ToLogin

\* a stored score that is an integer literal: an optional minus sign and then
\* digits only
IsIntegerText(p) ==
    LET d == IF p # <<>> /\ Head(p) = "-" THEN Tail(p) ELSE p
    IN  d # <<>> /\ \A i \in 1..Len(d) : IsDigit(d[i])

RECURSIVE DigitsValue(_)
DigitsValue(d) ==
    IF d = <<>> THEN 0
    ELSE 10 * DigitsValue(SubSeq(d, 1, Len(d) - 1)) + DigitVal(d[Len(d)])

IntegerOf(p) ==
    IF Head(p) = "-" THEN 0 - DigitsValue(Tail(p)) ELSE DigitsValue(p)

IntegerScores(x) ==
    /\ IsIntegerText(x.surveysatisfactionscore)
    /\ IsIntegerText(x.surveyusefulnessscore)
    /\ IsIntegerText(x.surveyinstructorscore)
    /\ IsIntegerText(x.surveyrecommendationscore)

\* C18: every stored survey whose four scores are integers has an overall
\* score equal to their arithmetic mean, and its bucket is "Promoter" when
\* the recommendation score is 5, "Passive" when it is 4 and "Detractor"
\* otherwise, after any sequence of adds and edits.
C18_SurveyDerivedFields ==
    \A x \in db.surveys :
        IntegerScores(x)
        => /\ ~x.surveyoverallscore.nan
           /\ 4 * x.surveyoverallscore.num
                = x.surveyoverallscore.den
                  * (IntegerOf(x.surveysatisfactionscore)
                     + IntegerOf(x.surveyusefulnessscore)
                     + IntegerOf(x.surveyinstructorscore)
                     + IntegerOf(x.surveyrecommendationscore))
           /\ x.surveynpsbucket
                = (IF IntegerOf(x.surveyrecommendationscore) = 5
                   THEN "Promoter"
                   ELSE IF IntegerOf(x.surveyrecommendationscore) = 4
                   THEN "Passive" ELSE "Detractor")

\* a survey that was added and then edited to scores 1, 2, 3, 3: its mean
\* is 9/4 and its bucket "Detractor"
C18_Witness ==
    \E r \in Slots :
        /\ reqs[r].route = "editSurvey" /\ reqs[r].pc = "done"
        /\ reqs[r].err = "none" /\ reqs[r].ran
        /\ \E x \in db.surveys :
              /\ x.surveyid = reqs[r].id
              /\ IntegerScores(x)
              /\ x.surveyrecommendationscore = <<"3">>
              /\ x.surveyoverallscore.num = 9 /\ x.surveyoverallscore.den = 4
              /\ x.surveynpsbucket = "Detractor"

----------------------------------------------------------------------------
(* Properties of account editing *)

\* a posted password that is empty or consists of white space only
Blank(p) == \A i \in 1..Len(p) : p[i] = " "

C21_Step ==
    \A r \in Slots :
        Stepped(r)
        => /\ (/\ reqs'[r].route = "editUser" /\ Blank(reqs'[r].password)
               /\ reqs'[r].pc = "done"
               /\ reqs'[r].resp.message = "User updated.")
              => \A a \in users :
                    a.id = reqs'[r].id
                    => [a EXCEPT !.username = reqs'[r].username,
                                 !.level = reqs'[r].level] \in users'
           /\ (/\ reqs'[r].route = "editUser" /\ ~Blank(reqs'[r].password)
               /\ reqs'[r].password # reqs'[r].confirm)
              => /\ users' = users
                 /\ reqs'[r].pc = "done"
                 /\ reqs'[r].ran => reqs'[r].resp.message = "Passwords do not match."
           /\ (/\ reqs'[r].route = "addUser"
               /\ \/ reqs'[r].username = "" \/ reqs'[r].password = <<>>
                  \/ reqs'[r].password # reqs'[r].confirm)
              => /\ users' = users /\ nextId' = nextId
                 /\ reqs'[r].pc = "done"

\* C21: POST /editUser/:id with an empty or white-space password sets the
\* username and level of the account and keeps its stored password; with a
\* password that differs from its confirmation it updates nothing; POST
\* /addUser without username or password, or with a password that differs
\* from its confirmation, inserts nothing.
C21_PasswordRules == [][C21_Step]_vars

\* bob renamed to carol by a form whose password is one space: the stored
\* hash is still bob's
C21_Witness ==
    \E r \in Slots :
        /\ reqs[r].route = "editUser" /\ reqs[r].pc = "done"
        /\ reqs[r].password = <<" ">>
        /\ reqs[r].resp.message = "User updated."
        /\ [id |-> 2, username |-> "carol",
            password |-> <<"$2", "s1", "q">>, level |-> "U"] \in users

----------------------------------------------------------------------------
(* Properties of the list routes *)

PaginatedRoutes == {"participants", "donations", "surveys", "events/past"}

\* C22: in GET /participants, /donations, /surveys and /events/past, for
\* every page parameter (missing, not a number, zero, negative) the page is
\* an integer of at least 1, the offset is (page - 1) * 50 and not negative,
\* and totalPages is at least 1 even when the total is 0.
C22_Pagination ==
    \A r \in Slots :
        (reqs[r].route \in PaginatedRoutes /\ reqs[r].ran /\ reqs[r].err = "none")
        => /\ reqs[r].list.page \in Nat /\ reqs[r].list.page >= 1
           /\ reqs[r].list.offset = (reqs[r].list.page - 1) * 50
           /\ reqs[r].list.offset >= 0
           /\ reqs[r].list.totalPages \in Nat /\ reqs[r].list.totalPages >= 1

\* page=-3 with no rows: page 1, offset 0, one page
C22_Witness ==
    \E r \in Slots :
        /\ reqs[r].route \in PaginatedRoutes /\ reqs[r].ran
        /\ reqs[r].form.page = Param(<<"-", "3">>)
        /\ reqs[r].list.total = 0
        /\ reqs[r].list.page = 1 /\ reqs[r].list.totalPages = 1

\* the keys and the columns written in a sortMap literal
OwnKeys(sortMap) == DOMAIN sortMap
Columns(sortMap) == {sortMap[k] : k \in DOMAIN sortMap}

SortedBy(rq, sortMap, fallback) ==
    /\ rq.list.orderBy \in Columns(sortMap)
    /\ (~rq.form.sortBy.given \/ rq.form.sortBy.text \notin OwnKeys(sortMap))
       => rq.list.orderBy = fallback

\* C30: for every sortBy, the column GET /users and GET /donations order by
\* is one of the values of the route's sortMap, and it is the default
\* (username; d.donationdate) whenever sortBy is not one of the sortMap's
\* own keys.
C30_SortColumn ==
    \A r \in Slots :
        /\ (reqs[r].route = "users" /\ reqs[r].ran)
           => SortedBy(reqs[r], UsersSortMap, "username")
        /\ (reqs[r].route = "donations" /\ reqs[r].ran /\ reqs[r].err = "none")
           => SortedBy(reqs[r], DonationsSortMap, "d.donationdate")

----------------------------------------------------------------------------
(* Properties of the event writers *)

EventIds(d) == {e.eventid : e \in d.events}
OccurrenceEventIds(d) == {o.eventid : o \in d.eventoccurrences}

\* every occurrence belongs to a stored event and every stored event has an
\* occurrence
EventsConsistent == EventIds(db) = OccurrenceEventIds(db)

C23_Step ==
    /\ (db'.events # db.events) <=> (db'.eventoccurrences # db.eventoccurrences)
    /\ \A r \in Slots :
          (Stepped(r) /\ reqs'[r].err = "transaction")
          => /\ db'.events = db.events
             /\ db'.eventoccurrences = db.eventoccurrences

\* C23: the event writers are atomic: POST /addEvent stores the event and
\* its first occurrence together or neither, POST /editEvent/:id changes
\* both tables or neither, POST /deleteEvent/:id removes the occurrences and
\* the event in one transaction; so no occurrence refers to a missing event
\* and no event is left without its occurrence.
C23_EventsAtomic == []EventsConsistent /\ [][C23_Step]_vars

\* POST /addEvent whose second insert failed: the serial value is spent and
\* no event 2 is stored
C23_Witness ==
    /\ db.nextEvent = 3
    /\ 2 \notin EventIds(db) \cup OccurrenceEventIds(db)
    /\ \E r \in Slots :
          /\ reqs[r].route = "addEvent" /\ reqs[r].newId = 0
          /\ reqs[r].pc = "done" /\ reqs[r].err = "transaction"

----------------------------------------------------------------------------
(* Properties of who may write accounts and participants *)

\* the accounts of tbl without their passwords
Identities(tbl) == {[id |-> a.id, username |-> a.username, level |-> a.level] :
                        a \in tbl}

C24_Step ==
    (users' # users \/ db'.participants # db.participants)
    => \E r \in Slots :
          /\ Stepped(r)
          /\ \/ reqs'[r].ctlUser.level = "M"
             \/ /\ reqs'[r].route = "create-account"
                /\ users \subseteq users'
                /\ \A a \in users' \ users : a.level = "U"
                /\ db'.participants = db.participants
             \/ /\ reqs[r].route = "login"
                /\ Identities(users') = Identities(users)
                /\ \A a \in users' \ users : a.username = reqs[r].username
                /\ db'.participants = db.participants

\* C24: accounts and participant records are created, changed or deleted
\* only by requests whose session user has level "M", except that
\* self-registration adds one level-"U" account and the login upgrade
\* changes the stored password of the account that logs in.
C24_ManagersWrite == [][C24_Step]_vars

\* C29: a POST /addDonation that fails leaves no participant row it
\* created, and one that succeeds adds one donation that refers to the
\* participant it added.
C29_AddDonationAtomic ==
    \A r \in Slots :
        (reqs[r].route = "addDonation" /\ reqs[r].pc = "done" /\ reqs[r].ran)
        => IF reqs[r].err # "none"
           THEN \A x \in db.participants :
                    reqs[r].newId = 0 \/ x.participantid # reqs[r].newId
           ELSE /\ \E x \in db.participants : x.participantid = reqs[r].newId
                /\ Cardinality({x \in db.donations :
                                    x.participantid = reqs[r].newId}) = 1

----------------------------------------------------------------------------
(* Properties of the legacy-password upgrade under interleaving *)

C25_Step ==
    \A r \in Slots :
        (/\ reqs[r].route = "login" /\ reqs[r].pc = "update"
         /\ reqs'[r].pc = "respond" /\ reqs'[r].err = "none")
        => \A a \in users :
              (/\ a.id = reqs[r].row.id
               /\ a.password # reqs[r].row.password
               /\ ~bcryptCompare(reqs[r].password, a.password))
              => a \in users'

\* C25: the upgrade's UPDATE never overwrites a credential that was changed
\* after the login read the account: when the stored password is no longer
\* the one read and no longer a password for the plain text the login
\* checked, the UPDATE leaves it as it is.
C25_UpgradeKeepsNewCredential == [][C25_Step]_vars

OnlyLogins == \A r \in Slots : reqs[r].route \in {"none", "login"}

CompletedLogin(r) ==
    /\ reqs[r].route = "login" /\ reqs[r].pc = "done" /\ reqs[r].err = "none"
    /\ reqs[r].username = "bob" /\ reqs[r].password = <<"q">>

\* C26: logins with the correct password for the same legacy account,
\* interleaved in any order, all succeed, each leaves the account in the
\* session it came on, and the stored password ends as a hash that carries
\* the marker and verifies against the original plain text.
C26_ConcurrentLogins ==
    OnlyLogins
    => \A r \in Slots :
          CompletedLogin(r)
          => /\ reqs[r].resp = LoginSuccess
             /\ session[reqs[r].sid] =
                    SessionSnapshot(FindByUsername(users, "bob"))
             /\ IsHashed(FindByUsername(users, "bob").password)
             /\ bcryptCompare(<<"q">>, FindByUsername(users, "bob").password)

\* two logins on two sessions, both answered with the redirect to /landing
C26_Witness ==
    \E r1, r2 \in Slots :
        /\ r1 # r2 /\ CompletedLogin(r1) /\ CompletedLogin(r2)
        /\ reqs[r1].sid # reqs[r2].sid
        /\ reqs[r1].resp = LoginSuccess /\ reqs[r2].resp = LoginSuccess
        /\ session[1] = session[2] /\ session[1].username = "bob"
        /\ IsHashed(FindByUsername(users, "bob").password)

----------------------------------------------------------------------------
(* Properties of the stored passwords *)

PlainText(tbl) == {a \in tbl : ~IsHashed(a.password)}

PlainTextIds(tbl) == {a.id : a \in PlainText(tbl)}

\* the rows of the second table whose password is new: the account is new
\* or its password differs from the one stored before
Written(before, after) ==
    {a \in after : \A b \in before : b.id = a.id => b.password # a.password}

C27_Step ==
    /\ \A a \in Written(users, users') : IsHashed(a.password)
    /\ PlainTextIds(users') \subseteq PlainTextIds(users)
    /\ Cardinality(PlainTextIds(users')) <= Cardinality(PlainTextIds(users))
    /\ PlainText(users) = {} => PlainText(users') = {}

\* C27: every password written by POST /create-account, POST /addUser,
\* POST /editUser/:id with a password and the login upgrade is a bcrypt
\* hash; a table without plain-text passwords stays without them, and the
\* number of plain-text passwords never grows.
C27_PasswordsHashed == [][C27_Step]_vars

\* the manager gave bob, whose password was plain text, a new password, and
\* a new account was added: no plain text is left
C27_Witness ==
    /\ \E a \in users : a.id = 2 /\ a.password = <<"$2", "s1", "n">>
    /\ \E a \in users : a.id = 3
    /\ PlainText(users) = {}
    /\ \E r \in Slots : reqs[r].pc = "done" /\ reqs[r].route # "none"

----------------------------------------------------------------------------
(* Properties of the responses *)

\* C28: every handler sends one response on every path, also when a
\* database or hashing step fails: no request is left without a response.
C28_AlwaysAnswered ==
    \A r \in Slots :
        /\ reqs[r].pc # "hung"
        /\ (reqs[r].route # "none" /\ reqs[r].pc = "done")
           => reqs[r].resp # NoResp

====
